---- MODULE Spec2Model ----
(***************************************************************************)
(* A model of the questionnaire engines of RT_Academy.                     *)
(*                                                                         *)
(*   - Questionnaire            (src/src/utils/questionnaire.py): the      *)
(*     sequential engine, one question per page.                           *)
(*   - CategoricalQuestionnaire (src/src/assessments/financiele_apk.py):   *)
(*     the two-level engine with conditional questions.                    *)
(*                                                                         *)
(* Both run on Streamlit: every user interaction re-executes the page      *)
(* script from the top against st.session_state.  One action of the model  *)
(* is one execution of the script (run()), given the event that caused it: *)
(* a button click, an edit of the on-screen control, or st.rerun().        *)
(* st.rerun() ends the running script and queues one more execution, which *)
(* is the variable rerun: while it is TRUE the user cannot interact.       *)
(***************************************************************************)
EXTENDS Integers, Sequences, FiniteSets, TLC

(***************************************************************************)
(* Bounds of the model.                                                    *)
(***************************************************************************)
\* The longest sequential questionnaire that is constructed.
MaxQ == 3
\* Numeric answers range over 0..MaxNum.
MaxNum == 1

(***************************************************************************)
(* Python values.  A value is a tuple whose first component is its type,   *)
(* so that values of different types can be compared.                      *)
(***************************************************************************)
None == <<"none">>
PyInt(n) == <<"int", n>>
PyFloat(n) == <<"float", n>>
PyStr(s) == <<"str", s>>
PyList(l) == <<"list", l>>

IsNumber(v) == v[1] \in {"int", "float"}

\* Python's ==: numbers compare by value whatever their type, everything else
\* by type and content.
PyEq(a, b) ==
    IF IsNumber(a) /\ IsNumber(b) THEN a[2] = b[2] ELSE a = b

\* float(x) of a number.
float(v) == PyFloat(v[2])

\* str(x) of a string.
str(v) == v

(***************************************************************************)
(* Python dicts: functions on the set of keys that are present.            *)
(***************************************************************************)
EmptyDict == [k \in {} |-> None]

\* d.get(k)
DictGet(d, k) == IF k \in DOMAIN d THEN d[k] ELSE None

\* d[k] = v
DictSet(d, k, v) == [x \in (DOMAIN d) \cup {k} |-> IF x = k THEN v ELSE d[x]]

\* d.update(e)
DictUpdate(d, e) ==
    [x \in (DOMAIN d) \cup (DOMAIN e) |-> IF x \in DOMAIN e THEN e[x] ELSE d[x]]

(***************************************************************************)
(* st.session_state slots: a slot is present or not.                       *)
(***************************************************************************)
NoStep == [has |-> FALSE, v |-> 0]
NoData == [has |-> FALSE, v |-> EmptyDict]
Slot(x) == [has |-> TRUE, v |-> x]

NoFlag == [has |-> FALSE, v |-> FALSE]
NoIndex == [has |-> FALSE, v |-> 0]
NoProgress == [has |-> FALSE, v |-> EmptyDict]

\* No slot of the categorical questionnaire exists.
NoCatSession ==
    [current_category |-> NoIndex, progress |-> NoProgress, data |-> NoData,
     in_stepmode |-> NoFlag, enter_stepmode |-> NoFlag]

(***************************************************************************)
(* The on-screen control of the question that the last execution rendered. *)
(* Streamlit keeps a control's value for as long as consecutive executions *)
(* render a control with the same key; a control that an execution does    *)
(* not render is forgotten.                                                *)
(***************************************************************************)
NoWidget == [on |-> FALSE, key |-> "", val |-> None, edited |-> FALSE]

\* No function is examined on its own.
NoCall == [fn |-> "none"]

VARIABLES
    engine,      \* which engine the page under test runs: "seq" or "cat"
    \* ---- the page ----
    widget,      \* the on-screen control of the rendered question
    view,        \* what the last execution of the script put on the page
    rerun,       \* st.rerun() was called: one more execution is queued
    ret,         \* what the last call of run() returned
    \* ---- sequential engine ----
    questions,   \* Questionnaire.questions, fixed at construction
    sess,        \* the slots <prefix>_<name>_step and <prefix>_<name>_data
    hist,        \* history: the clicks since the session state was fresh
    \* ---- categorical engine ----
    categories,  \* CategoricalQuestionnaire.categories, fixed at construction
    csess,       \* its slots: current_category, progress, data, and the
                 \* two step-mode flags
    \* ---- functions ----
    call         \* the call of a function that is examined on its own: its
                 \* arguments and, once it has returned, its result

seqOnly == <<questions, sess, hist>>
catOnly == <<categories, csess>>
pageOnly == <<widget, view, rerun, ret>>

vars == <<engine, widget, view, rerun, ret, questions, sess, hist,
          categories, csess, call>>

(***************************************************************************)
(* Questions (src/src/utils/questionnaire.py).                             *)
(***************************************************************************)
NumValues == {PyFloat(n) : n \in 0..MaxNum}
TextValues == {PyStr(""), PyStr("a")}

\* What the user can enter in the control of a question of this kind.
Entries(kind) == IF kind = "number" THEN NumValues ELSE TextValues

\* NumberQuestion.get_default_value: min_value (0 by default, an int);
\* TextQuestion.get_default_value: "".
get_default_value(q) == IF q.kind = "number" THEN PyInt(0) ELSE PyStr("")

\* Question.render(current_value): the control is seeded with current_value,
\* or with the default when that is None; a control that is already on the
\* screen keeps what the user entered.  NumberQuestion returns float(result),
\* TextQuestion str(result).
\* Mutant: the control of a ConditionalQuestion is keyed by the wrapper's own
\* key.
InputKey_own(q) == "input_" \o q.key

InputKey(q) == "input_" \o (IF q.cond THEN q.base_key ELSE q.key)

OnScreen(q, w) == w.on /\ w.key = InputKey(q)

\* Mutant: a control that comes onto the screen shows the default, whatever
\* is stored.
ShownIgnoringStored(q, current_value, w) ==
    IF OnScreen(q, w) THEN w.val ELSE get_default_value(q)

Shown(q, current_value, w) ==
    IF OnScreen(q, w) THEN w.val
    ELSE IF current_value # None THEN current_value
    ELSE get_default_value(q)

render(q, current_value, w) ==
    IF q.kind = "number" THEN float(Shown(q, current_value, w))
    ELSE str(Shown(q, current_value, w))

\* The i-th question of the questionnaire under test: distinct keys, number
\* and text questions alternating.
QuestionAt(i) ==
    [key |-> "q" \o ToString(i),
     kind |-> IF i % 2 = 1 THEN "number" ELSE "text",
     cond |-> FALSE]

(***************************************************************************)
(* Questionnaire (sequential engine).                                      *)
(***************************************************************************)
\* _initialize_session_state
Questionnaire_initialize_session_state(ss) ==
    [step |-> IF ss.step.has THEN ss.step ELSE Slot(0),
     data |-> IF ss.data.has THEN ss.data ELSE Slot(EmptyDict)]

\* _get_current_step: int(st.session_state.get(step_key, 0))
Questionnaire_get_current_step(ss) == IF ss.step.has THEN ss.step.v ELSE 0

\* _set_current_step
Questionnaire_set_current_step(ss, step) == [ss EXCEPT !.step = Slot(step)]

\* _get_stored_data: dict(st.session_state.get(data_key, {}))
Questionnaire_get_stored_data(ss) == IF ss.data.has THEN ss.data.v ELSE EmptyDict

\* Mutant: the answer replaces the stored map instead of being added to it.
Questionnaire_store_answer_replacing(ss, question_key, value) ==
    [ss EXCEPT !.data = Slot(DictSet(EmptyDict, question_key, value))]

\* _store_answer
Questionnaire_store_answer(ss, question_key, value) ==
    [ss EXCEPT !.data =
        Slot(DictSet(Questionnaire_get_stored_data(ss), question_key, value))]

\* Mutant: reset forgets the answers and keeps the position.
Questionnaire_reset_keeping_step(ss) == [step |-> ss.step, data |-> NoData]

\* reset
Questionnaire_reset(ss) == [step |-> NoStep, data |-> NoData]

\* An Optional[Dict] result: None or an answer map; and, for the variable ret,
\* "unset": run() has not returned since the state last changed (the script
\* has not run yet, or st.rerun() ended it).
Unset == [kind |-> "unset", data |-> EmptyDict]
RetNone == [kind |-> "none", data |-> EmptyDict]
RetData(d) == [kind |-> "data", data |-> d]

\* Mutant: complete only beyond the last index.
Questionnaire_is_complete_strict(ss, qs) ==
    Questionnaire_get_current_step(ss) > Len(qs)

\* is_complete
Questionnaire_is_complete(ss, qs) ==
    Questionnaire_get_current_step(ss) >= Len(qs)

\* get_data
Questionnaire_get_data(ss, qs) ==
    IF Questionnaire_is_complete(ss, qs)
    THEN RetData(Questionnaire_get_stored_data(ss))
    ELSE RetNone

\* The page of an execution that rendered nothing of the questionnaire.
NoView == [page |-> "none", idx |-> 0, seed |-> None, prev |-> FALSE]

\* Mutant: "Vorige" stays on the question.
PreviousStepStays(current_step) == current_step

\* The step after "Vorige" at current_step.
PreviousStep(current_step) == current_step - 1

\* Mutant: "Vorige" is offered on the first question too.
PreviousAlwaysOffered(current_step) == current_step >= 0

\* "Vorige" is on the page at current_step.
PreviousOffered(current_step) == current_step > 0

\* The step after "Volgende"/"Voltooi" at current_step.
NextStep(current_step, total_steps) ==
    IF current_step < total_steps - 1 THEN current_step + 1 ELSE total_steps

\* _render_navigation: the buttons "Vorige" (key prev_<step>, only when
\* current_step > 0) and "Volgende"/"Voltooi".  ev is the button the user
\* clicked on the page vw, if any; a click counts when this execution renders
\* the button with the same key.
Questionnaire_render_navigation(ss, qs, current_step, current_value, ev, vw) ==
    LET question == qs[current_step + 1]
        same == vw.page = "question" /\ vw.idx = current_step
    IN  IF ev = "prev" /\ same /\ PreviousOffered(current_step)
        THEN [sess |-> Questionnaire_set_current_step(
                           Questionnaire_store_answer(ss, question.key, current_value),
                           PreviousStep(current_step)),
              rerun |-> TRUE]
        ELSE IF ev = "next" /\ same
        THEN [sess |-> Questionnaire_set_current_step(
                           Questionnaire_store_answer(ss, question.key, current_value),
                           NextStep(current_step, Len(qs))),
              rerun |-> TRUE]
        ELSE [sess |-> ss, rerun |-> FALSE]

\* run: one execution of the script.  w is the control on the screen when the
\* execution starts, ev the click that caused it, vw the page it was made on.
Questionnaire_run(ss0, qs, w, ev, vw) ==
    LET ss == Questionnaire_initialize_session_state(ss0)
        current_step == Questionnaire_get_current_step(ss)
    IN  IF current_step >= Len(qs)
        THEN [sess |-> ss, widget |-> NoWidget,
              view |-> [page |-> "done", idx |-> current_step, seed |-> None,
                        prev |-> FALSE],
              rerun |-> FALSE,
              ret |-> Questionnaire_get_data(ss, qs)]
        ELSE LET question == qs[current_step + 1]
                 stored_data == Questionnaire_get_stored_data(ss)
                 seed == DictGet(stored_data, question.key)
                 current_value == render(question, seed, w)
                 nav == Questionnaire_render_navigation(
                            ss, qs, current_step, current_value, ev, vw)
             IN  [sess |-> nav.sess,
                  widget |-> [on |-> TRUE, key |-> InputKey(question),
                              val |-> current_value,
                              edited |-> OnScreen(question, w) /\ w.edited],
                  view |-> [page |-> "question", idx |-> current_step,
                            seed |-> seed,
                            prev |-> PreviousOffered(current_step)],
                  rerun |-> nav.rerun,
                  ret |-> IF nav.rerun THEN Unset ELSE RetNone]

(***************************************************************************)
(* The sequential engine as a state machine.                               *)
(***************************************************************************)
FreshHist == [nextOnly |-> TRUE, clicks |-> 0]

InitSeq ==
    /\ engine = "seq"
    /\ categories = <<>>
    /\ csess = NoCatSession
    /\ \E n \in 0..MaxQ : questions = [i \in 1..n |-> QuestionAt(i)]
    /\ sess = [step |-> NoStep, data |-> NoData]
    /\ widget = NoWidget
    /\ view = NoView
    /\ rerun = FALSE
    /\ ret = Unset
    /\ hist = FreshHist
    /\ call = NoCall

SeqApply(r) ==
    /\ sess' = r.sess
    /\ widget' = r.widget
    /\ view' = r.view
    /\ rerun' = r.rerun
    /\ ret' = r.ret
    /\ UNCHANGED <<engine, questions, catOnly, call>>

SeqExecute(w, ev) == SeqApply(Questionnaire_run(sess, questions, w, ev, view))

\* The script runs without a click: the first load of the page, or the
\* execution that st.rerun() queued.
SeqRun ==
    /\ engine = "seq"
    /\ rerun \/ view.page = "none"
    /\ SeqExecute(widget, "none")
    /\ UNCHANGED hist

\* The user changes the value in the on-screen control.
SeqEdit ==
    /\ engine = "seq"
    /\ ~rerun /\ view.page = "question"
    /\ \E v \in Entries(questions[view.idx + 1].kind) :
          /\ v # widget.val
          /\ SeqExecute([widget EXCEPT !.val = v, !.edited = TRUE], "none")
    /\ UNCHANGED hist

\* The user clicks "Vorige".
SeqPrevious ==
    /\ engine = "seq"
    /\ ~rerun /\ view.page = "question" /\ view.prev
    /\ SeqExecute(widget, "prev")
    /\ hist' = [hist EXCEPT !.nextOnly = FALSE]

\* The user clicks "Volgende" or "Voltooi".
SeqNext ==
    /\ engine = "seq"
    /\ ~rerun /\ view.page = "question"
    /\ SeqExecute(widget, "next")
    /\ hist' = [hist EXCEPT !.clicks = IF hist.nextOnly THEN @ + 1 ELSE @]

\* The host calls reset(); the control on the screen survives when the host
\* goes on to render the question in the same execution, and is forgotten
\* otherwise.
SeqReset ==
    /\ engine = "seq"
    /\ ~rerun
    /\ sess' = Questionnaire_reset(sess)
    /\ widget' \in {widget, NoWidget}
    /\ view' = NoView
    /\ rerun' = FALSE
    /\ ret' = Unset
    /\ hist' = FreshHist
    /\ UNCHANGED <<engine, questions, catOnly, call>>

NextSeq == SeqRun \/ SeqEdit \/ SeqPrevious \/ SeqNext \/ SeqReset

SpecSeq == InitSeq /\ [][NextSeq]_vars

(***************************************************************************)
(* Questions of the categorical engine                                     *)
(* (src/src/assessments/financiele_apk.py).                                *)
(***************************************************************************)
\* A NumberQuestion or TextQuestion.
Plain(key, kind) == [key |-> key, kind |-> kind, cond |-> FALSE]

\* ConditionalQuestion(key, text, base_question, condition_key,
\* condition_value): render and get_default_value are those of base_question
\* (its kind and the key of its control), the key is the wrapper's own.
ConditionalQuestion(key, base_question, condition_key, condition_value) ==
    [key |-> key, kind |-> base_question.kind, cond |-> TRUE,
     base_key |-> base_question.key,
     condition_key |-> condition_key, condition_value |-> condition_value]

\* str.strip(): the string without its leading and trailing whitespace.
IsSpace(c) == c \in {" ", "\t", "\n"}

RECURSIVE lstrip(_)
lstrip(s) ==
    IF Len(s) = 0 THEN s
    ELSE IF IsSpace(SubSeq(s, 1, 1)) THEN lstrip(SubSeq(s, 2, Len(s)))
    ELSE s

RECURSIVE rstrip(_)
rstrip(s) ==
    IF Len(s) = 0 THEN s
    ELSE IF IsSpace(SubSeq(s, Len(s), Len(s)))
    THEN rstrip(SubSeq(s, 1, Len(s) - 1))
    ELSE s

strip(s) == rstrip(lstrip(s))

\* repr(x) of a value, as str() of a list writes its elements.
RECURSIVE Repr(_)
RECURSIVE Joined(_)
Joined(l) ==
    IF l = <<>> THEN ""
    ELSE IF Len(l) = 1 THEN Repr(l[1])
    ELSE Repr(l[1]) \o ", " \o Joined(Tail(l))

Repr(v) ==
    IF v[1] = "str" THEN "'" \o v[2] \o "'"
    ELSE IF v[1] = "int" THEN ToString(v[2])
    ELSE IF v[1] = "float" THEN ToString(v[2]) \o ".0"
    ELSE IF v[1] = "list" THEN "[" \o Joined(v[2]) \o "]"
    ELSE "None"

\* str(x) of any value: a string is itself.
StrOf(v) == IF v[1] = "str" THEN v[2] ELSE Repr(v)

\* x in list
PyIn(x, l) == \E i \in 1..Len(l[2]) : PyEq(x, l[2][i])

\* Mutant: the sentinel guard looks at the answer without stripping it.
ConditionalQuestion_should_show_no_strip(q, data) ==
    LET current_value == DictGet(data, q.condition_key)
    IN  IF q.condition_value = PyStr("")
        THEN current_value # None /\ StrOf(current_value) # ""
        ELSE IF q.condition_value[1] = "list"
        THEN PyIn(current_value, q.condition_value)
        ELSE IF q.condition_value[1] = "str" /\ current_value[1] = "list"
        THEN PyIn(q.condition_value, current_value)
        ELSE PyEq(current_value, q.condition_value)

\* Mutant: a list-valued answer is compared with the guard, not searched.
ConditionalQuestion_should_show_no_membership(q, data) ==
    LET current_value == DictGet(data, q.condition_key)
    IN  IF q.condition_value = PyStr("")
        THEN current_value # None /\ strip(StrOf(current_value)) # ""
        ELSE IF q.condition_value[1] = "list"
        THEN PyIn(current_value, q.condition_value)
        ELSE PyEq(current_value, q.condition_value)

\* Mutant: a list guard is compared like any other value.
ConditionalQuestion_should_show_no_list(q, data) ==
    LET current_value == DictGet(data, q.condition_key)
    IN  IF q.condition_value = PyStr("")
        THEN current_value # None /\ strip(StrOf(current_value)) # ""
        ELSE PyEq(current_value, q.condition_value)

\* ConditionalQuestion.should_show
ConditionalQuestion_should_show(q, data) ==
    LET current_value == DictGet(data, q.condition_key)
    IN  IF q.condition_value = PyStr("")
        THEN current_value # None /\ strip(StrOf(current_value)) # ""
        ELSE IF q.condition_value[1] = "list"
        THEN PyIn(current_value, q.condition_value)
        ELSE IF q.condition_value[1] = "str" /\ current_value[1] = "list"
        THEN PyIn(q.condition_value, current_value)
        ELSE PyEq(current_value, q.condition_value)

(***************************************************************************)
(* CategoricalQuestionnaire.                                               *)
(***************************************************************************)
\* CategoryProgress(category_name)
CategoryProgress == [current_question |-> 0, completed |-> FALSE,
                     data |-> EmptyDict]

\* _initialize_session_state
CQ_initialize_session_state(cs, cats) ==
    [cs EXCEPT
        !.current_category = IF cs.current_category.has THEN @ ELSE Slot(0),
        !.progress = IF cs.progress.has THEN @
                     ELSE Slot([n \in {cats[i].name : i \in 1..Len(cats)}
                                   |-> CategoryProgress]),
        !.data = IF cs.data.has THEN @ ELSE Slot(EmptyDict)]

\* _get_current_category_index
CQ_get_current_category_index(cs) ==
    IF cs.current_category.has THEN cs.current_category.v ELSE 0

\* _set_current_category_index
CQ_set_current_category_index(cs, index) ==
    [cs EXCEPT !.current_category = Slot(index)]

\* _get_progress
CQ_get_progress(cs) == IF cs.progress.has THEN cs.progress.v ELSE EmptyDict

\* _update_progress
CQ_update_progress(cs, category_name, progress) ==
    [cs EXCEPT !.progress =
        Slot(DictSet(CQ_get_progress(cs), category_name, progress))]

\* _get_all_data
CQ_get_all_data(cs) == IF cs.data.has THEN cs.data.v ELSE EmptyDict

\* Mutant: the stored map is replaced by the new answers.
CQ_store_data_replacing(cs, data) ==
    [cs EXCEPT !.data = Slot(data)]

\* _store_data
CQ_store_data(cs, data) ==
    [cs EXCEPT !.data = Slot(DictUpdate(CQ_get_all_data(cs), data))]

\* Mutant: only the answers of the category itself decide visibility.
CQ_get_visible_questions_local(cs, category, data) ==
    SelectSeq(category.questions,
              LAMBDA q : ~q.cond \/ ConditionalQuestion_should_show(q, data))

\* _get_visible_questions
CQ_get_visible_questions(cs, category, data) ==
    LET all_data == DictUpdate(CQ_get_all_data(cs), data)
    IN  SelectSeq(category.questions,
                  LAMBDA q : ~q.cond \/ ConditionalQuestion_should_show(q, all_data))

\* Mutant: complete as soon as one category is.
CQ_is_complete_any(cs) ==
    \E n \in DOMAIN CQ_get_progress(cs) : CQ_get_progress(cs)[n].completed

\* is_complete: all(progress.completed for progress in progress_data.values())
CQ_is_complete(cs) ==
    \A n \in DOMAIN CQ_get_progress(cs) : CQ_get_progress(cs)[n].completed

\* get_data
CQ_get_data(cs) ==
    IF CQ_is_complete(cs) THEN RetData(CQ_get_all_data(cs)) ELSE RetNone

\* reset
CQ_reset(cs) == NoCatSession

\* progress_data.get(cat.name, CategoryProgress(cat.name)), as show_overview
\* and get_completion_summary read a category's record.
ProgressOf(cs, category) ==
    IF category.name \in DOMAIN CQ_get_progress(cs)
    THEN CQ_get_progress(cs)[category.name]
    ELSE CategoryProgress

\* The index of the first category that is not completed, -1 when there is
\* none (the loops of show_overview and _run_step_by_step_mode).
FirstIncomplete(cs, cats) ==
    LET open == {i \in 1..Len(cats) : ~ProgressOf(cs, cats[i]).completed}
    IN  IF open = {} THEN -1
        ELSE (CHOOSE i \in open : \A j \in open : i <= j) - 1

\* Buttons, by their Streamlit keys.
NoEvent == <<"none">>
PrevKey(category, idx) == <<"prev_q", category.name, idx>>
NextKey(category, idx) == <<"next_q", category.name, idx>>
CompleteKey(category) == <<"complete_cat", category.name>>
SkipKey(category) == <<"skip_cat", category.name>>
BackKey == <<"back_to_overview">>
GotoKey(i) == <<"goto_overview", i>>
RestartKey == <<"start_opnieuw">>
ContinueKey == <<"ga_verder">>
ResultsKey == <<"toon_resultaten">>

\* A page of the categorical engine.
CatView(page, cat, idx, key, seed, visible, buttons) ==
    [page |-> page, cat |-> cat, idx |-> idx, key |-> key, seed |-> seed,
     visible |-> visible, buttons |-> buttons]
CatNoView == CatView("none", 0, 0, "", None, <<>>, {})

KeysOf(qs) == [i \in 1..Len(qs) |-> qs[i].key]

Max(a, b) == IF a >= b THEN a ELSE b

\* The merge at the head of _run_category: an answer that the global map
\* holds for a question of the category and the category does not.
MergeGlobal(data, category, global_data) ==
    [k \in (DOMAIN data) \cup
           {category.questions[i].key : i \in
               {j \in 1..Len(category.questions) :
                   category.questions[j].key \in DOMAIN global_data}}
        |-> IF k \in DOMAIN data THEN data[k] ELSE global_data[k]]

\* Mutant: the auto-save updates stored answers and does not add new ones.
AutoSaveOnlyUpdates(cs, category, progress, question, current_value) ==
    LET changed == current_value # None
                   /\ question.key \in DOMAIN progress.data
                   /\ ~PyEq(current_value, DictGet(progress.data, question.key))
        p == [progress EXCEPT !.data = DictSet(@, question.key, current_value)]
    IN  IF changed
        THEN [progress |-> p,
              sess |-> CQ_store_data(
                           CQ_update_progress(cs, category.name, p),
                           DictSet(EmptyDict, question.key, current_value))]
        ELSE [progress |-> progress, sess |-> cs]

\* Mutant: the auto-save writes the category's map only.
AutoSaveLocalOnly(cs, category, progress, question, current_value) ==
    LET changed == current_value # None
                   /\ ~PyEq(current_value, DictGet(progress.data, question.key))
        p == [progress EXCEPT !.data = DictSet(@, question.key, current_value)]
    IN  IF changed
        THEN [progress |-> p,
              sess |-> CQ_update_progress(cs, category.name, p)]
        ELSE [progress |-> progress, sess |-> cs]

\* AUTO-SAVE of _run_category: a value that is not None and differs from the
\* stored one goes to the category's map and to the global map.
AutoSave(cs, category, progress, question, current_value) ==
    LET changed == current_value # None
                   /\ ~PyEq(current_value, DictGet(progress.data, question.key))
        p == [progress EXCEPT !.data = DictSet(@, question.key, current_value)]
    IN  IF changed
        THEN [progress |-> p,
              sess |-> CQ_store_data(
                           CQ_update_progress(cs, category.name, p),
                           DictSet(EmptyDict, question.key, current_value))]
        ELSE [progress |-> progress, sess |-> cs]

\* _run_category, lines 363-369: the CategoryProgress object of the category
\* with the answers of the global map merged in.  The object lives in the
\* session state, so every assignment to it is a write to the session state.
MergedProgress(cs, category) ==
    [CQ_get_progress(cs)[category.name] EXCEPT
        !.data = MergeGlobal(@, category, CQ_get_all_data(cs))]

\* Mutant: the category's data is returned and the category is not marked.
CategoryFinishedUnmarked(cs, category, ci, progress, visible_questions) ==
    [sess |-> cs,
     widget |-> NoWidget,
     view |-> CatView("finished", ci, progress.current_question, "", None,
                      KeysOf(visible_questions), {BackKey}),
     rerun |-> FALSE,
     result |-> RetData(progress.data)]

\* _run_category, lines 374-378 and 391-394: nothing to show, or the cursor
\* is past the visible questions: the category is marked completed and its
\* data returned.
CategoryFinished(cs, category, ci, progress, visible_questions) ==
    [sess |-> CQ_update_progress(cs, category.name,
                                 [progress EXCEPT !.completed = TRUE]),
     widget |-> NoWidget,
     view |-> CatView("finished", ci, progress.current_question, "", None,
                      KeysOf(visible_questions), {BackKey}),
     rerun |-> FALSE,
     result |-> RetData(progress.data)]

\* _run_category, lines 425-430: the primary button of the page.
NextButton(category, idx, visible_questions) ==
    IF idx < Len(visible_questions) - 1
    THEN NextKey(category, idx)
    ELSE CompleteKey(category)

\* The buttons of a question page.
QuestionButtons(category, idx, visible_questions) ==
    {BackKey, NextButton(category, idx, visible_questions), SkipKey(category)}
    \cup (IF idx > 0 THEN {PrevKey(category, idx)} ELSE {})

\* Mutant: skipping moves the cursor past the visible questions.
NavigationSkipMovesCursor(progress, category, idx, visible_questions, ev) ==
    IF idx > 0 /\ ev = PrevKey(category, idx)
    THEN [progress |-> [progress EXCEPT !.current_question = Max(0, idx - 1)],
          rerun |-> TRUE]
    ELSE IF ev = NextButton(category, idx, visible_questions)
    THEN [progress |-> [progress EXCEPT
                           !.current_question = idx + 1,
                           !.completed = IF idx + 1 >= Len(visible_questions)
                                         THEN TRUE ELSE @],
          rerun |-> TRUE]
    ELSE IF ev = SkipKey(category)
    THEN [progress |-> [progress EXCEPT
                           !.current_question = Len(visible_questions),
                           !.completed = TRUE],
          rerun |-> TRUE]
    ELSE [progress |-> progress, rerun |-> FALSE]

\* Mutant: the last "next" moves the cursor and leaves the category open.
NavigationNeverCompletes(progress, category, idx, visible_questions, ev) ==
    IF idx > 0 /\ ev = PrevKey(category, idx)
    THEN [progress |-> [progress EXCEPT !.current_question = Max(0, idx - 1)],
          rerun |-> TRUE]
    ELSE IF ev = NextButton(category, idx, visible_questions)
    THEN [progress |-> [progress EXCEPT !.current_question = idx + 1],
          rerun |-> TRUE]
    ELSE IF ev = SkipKey(category)
    THEN [progress |-> [progress EXCEPT !.completed = TRUE], rerun |-> TRUE]
    ELSE [progress |-> progress, rerun |-> FALSE]

\* _run_category, lines 408-448: the clicked button, if this execution
\* renders it, moves the cursor or completes the category and calls
\* st.rerun().
Navigation(progress, category, idx, visible_questions, ev) ==
    IF idx > 0 /\ ev = PrevKey(category, idx)
    THEN [progress |-> [progress EXCEPT !.current_question = Max(0, idx - 1)],
          rerun |-> TRUE]
    ELSE IF ev = NextButton(category, idx, visible_questions)
    THEN [progress |-> [progress EXCEPT
                           !.current_question = idx + 1,
                           !.completed = IF idx + 1 >= Len(visible_questions)
                                         THEN TRUE ELSE @],
          rerun |-> TRUE]
    ELSE IF ev = SkipKey(category)
    THEN [progress |-> [progress EXCEPT !.completed = TRUE], rerun |-> TRUE]
    ELSE [progress |-> progress, rerun |-> FALSE]

\* The outcome of an execution that rendered a question.
QuestionPage(cs, nav, category, ci, idx, visible_questions, question, seed, current_value, w) ==
    [sess |-> IF nav.rerun
              THEN CQ_update_progress(cs, category.name, nav.progress)
              ELSE cs,
     widget |-> [on |-> TRUE, key |-> InputKey(question),
                 val |-> current_value,
                 edited |-> OnScreen(question, w) /\ w.edited],
     view |-> CatView("question", ci, idx, question.key, seed,
                      KeysOf(visible_questions),
                      QuestionButtons(category, idx, visible_questions)),
     rerun |-> nav.rerun,
     result |-> IF nav.rerun THEN Unset
                ELSE IF nav.progress.completed THEN RetData(nav.progress.data)
                ELSE RetNone]

\* _run_category, lines 400-454, from the auto-save on.
SavedQuestion(saved, category, ci, idx, visible_questions, question, seed, current_value, w, ev) ==
    QuestionPage(saved.sess,
                 Navigation(saved.progress, category, idx, visible_questions, ev),
                 category, ci, idx, visible_questions, question, seed,
                 current_value, w)

\* _run_category, lines 396-398: the question at the cursor is rendered,
\* seeded with the category's stored answer.
RenderQuestion(cs, category, ci, progress, visible_questions, question, seed, w, ev) ==
    SavedQuestion(AutoSave(cs, category, progress, question,
                           render(question, seed, w)),
                  category, ci, progress.current_question, visible_questions,
                  question, seed, render(question, seed, w), w, ev)

\* _run_category, lines 371-398.
RunVisible(cs, category, ci, progress, visible_questions, w, ev) ==
    IF visible_questions = <<>>
       \/ progress.current_question >= Len(visible_questions)
    THEN CategoryFinished(cs, category, ci, progress, visible_questions)
    ELSE RenderQuestion(cs, category, ci, progress, visible_questions,
             visible_questions[progress.current_question + 1],
             DictGet(progress.data,
                     visible_questions[progress.current_question + 1].key),
             w, ev)

RunMerged(cs, category, ci, progress, w, ev) ==
    RunVisible(cs, category, ci, progress,
               CQ_get_visible_questions(cs, category, progress.data), w, ev)

\* _run_category
CQ_run_category(cs, category, ci, w, ev) ==
    RunMerged(CQ_update_progress(cs, category.name,
                                 MergedProgress(cs, category)),
              category, ci, MergedProgress(cs, category), w, ev)

\* Mutant: after a category the cursor moves to the following category.
NextCategoryAfterCurrent(cs, cats) ==
    LET cur == CQ_get_current_category_index(cs)
        open == {i \in 1..Len(cats) : ~ProgressOf(cs, cats[i]).completed}
        later == {i \in open : i - 1 > cur}
    IN  IF open = {} THEN -1
        ELSE IF later = {} THEN (CHOOSE i \in open : \A j \in open : i <= j) - 1
        ELSE (CHOOSE i \in later : \A j \in later : i <= j) - 1

\* The category that follows a completed one: the first incomplete category
\* of the list, -1 when none is left.
NextCategory(cs, cats) == FirstIncomplete(cs, cats)

\* Mutant: the cursor moves but the page of the completed category stays.
MoveToWithoutRerun(cs, next_category_idx, wdg, page) ==
    [sess |-> IF next_category_idx # -1
              THEN CQ_set_current_category_index(cs, next_category_idx)
              ELSE [cs EXCEPT !.in_stepmode = Slot(FALSE)],
     widget |-> wdg, view |-> page, rerun |-> FALSE, ret |-> Unset]

\* _run_step_by_step_mode, lines 645-659: the cursor moves to the next
\* incomplete category, or the engine leaves the step-by-step mode.
MoveTo(cs, next_category_idx, wdg, page) ==
    [sess |-> IF next_category_idx # -1
              THEN CQ_set_current_category_index(cs, next_category_idx)
              ELSE [cs EXCEPT !.in_stepmode = Slot(FALSE)],
     widget |-> wdg, view |-> page, rerun |-> TRUE, ret |-> Unset]

\* _run_step_by_step_mode, lines 639-661: after the category has run.
AfterCategory(rc, cats) ==
    IF rc.rerun
    THEN [sess |-> rc.sess, widget |-> rc.widget, view |-> rc.view,
          rerun |-> TRUE, ret |-> Unset]
    ELSE IF rc.result.kind = "data"
    THEN MoveTo(CQ_store_data(rc.sess, rc.result.data),
                NextCategory(CQ_store_data(rc.sess, rc.result.data), cats),
                rc.widget, rc.view)
    ELSE [sess |-> rc.sess, widget |-> rc.widget, view |-> rc.view,
          rerun |-> FALSE, ret |-> RetNone]

\* _run_step_by_step_mode
CQ_run_step_by_step_mode(cs, cats, w, ev) ==
    IF ev = BackKey
    THEN [sess |-> [cs EXCEPT !.in_stepmode = Slot(FALSE)],
          widget |-> NoWidget,
          view |-> CatView("leaving", 0, 0, "", None, <<>>, {BackKey}),
          rerun |-> TRUE, ret |-> Unset]
    ELSE IF CQ_is_complete(cs)
    THEN [sess |-> cs, widget |-> NoWidget,
          view |-> CatView("summary", 0, 0, "", None, <<>>, {BackKey}),
          rerun |-> FALSE, ret |-> CQ_get_data(cs)]
    ELSE AfterCategory(
             CQ_run_category(cs, cats[CQ_get_current_category_index(cs) + 1],
                             CQ_get_current_category_index(cs), w, ev),
             cats)

\* The buttons of the overview.
OverviewButtons(cs, cats) ==
    {GotoKey(i - 1) : i \in 1..Len(cats)}
    \cup {RestartKey}
    \cup (IF CQ_is_complete(cs) THEN {ResultsKey} ELSE {ContinueKey})

\* show_overview, lines 542-545 and 574-577: into the step-by-step mode at
\* category i.
EnterCategory(cs, i, page) ==
    [sess |-> [CQ_set_current_category_index(cs, i)
                  EXCEPT !.enter_stepmode = Slot(TRUE)],
     widget |-> NoWidget, view |-> page, rerun |-> TRUE, ret |-> Unset]

Overview(cs, cats, ev, page) ==
    IF ev \in {GotoKey(i - 1) : i \in 1..Len(cats)}
    THEN EnterCategory(cs, ev[2], page)
    ELSE IF ev = RestartKey
    THEN [sess |-> CQ_reset(cs), widget |-> NoWidget, view |-> page,
          rerun |-> TRUE, ret |-> Unset]
    ELSE IF ev = ContinueKey /\ ~CQ_is_complete(cs)
            /\ FirstIncomplete(cs, cats) # -1
    THEN EnterCategory(cs, FirstIncomplete(cs, cats), page)
    ELSE IF ev = ResultsKey /\ CQ_is_complete(cs)
    THEN [sess |-> cs, widget |-> NoWidget, view |-> page,
          rerun |-> FALSE, ret |-> CQ_get_data(cs)]
    ELSE [sess |-> cs, widget |-> NoWidget, view |-> page,
          rerun |-> FALSE, ret |-> RetNone]

\* show_overview
CQ_show_overview(cs, cats, ev) ==
    Overview(cs, cats, ev,
             CatView("overview", 0, 0, "", None, <<>>, OverviewButtons(cs, cats)))

\* run, lines 762-766: the enter flag is cleared and the mode flag set.
EnterStepMode(cs) ==
    IF cs.enter_stepmode.has /\ cs.enter_stepmode.v
    THEN [cs EXCEPT !.enter_stepmode = NoFlag, !.in_stepmode = Slot(TRUE)]
    ELSE cs

\* run, lines 762-776.
Dispatch(cs, cats, w, ev) ==
    IF cs.in_stepmode.has /\ cs.in_stepmode.v
    THEN CQ_run_step_by_step_mode(cs, cats, w, ev)
    ELSE CQ_show_overview(cs, cats, ev)

\* run: one execution of the script.
CQ_run(cs, cats, w, ev) ==
    Dispatch(EnterStepMode(CQ_initialize_session_state(cs, cats)), cats, w, ev)

\* navigate_to_category
CQ_navigate_to_category(cs, cats, category_name) ==
    LET found == {i \in 1..Len(cats) : cats[i].name = category_name}
    IN  IF found = {} THEN cs
        ELSE CQ_set_current_category_index(cs, (CHOOSE i \in found : TRUE) - 1)

\* navigate_to_question: the index of the question in category.questions
\* becomes the category's cursor.  Reading the progress record of a
\* questionnaire whose slots are absent raises KeyError.
Raised == [kind |-> "raised", data |-> EmptyDict]

\* Mutant: navigating to a question reopens its category.
CQ_navigate_to_question_reopening(cs0, cats, category_name, question_key) ==
    LET cs == CQ_navigate_to_category(cs0, cats, category_name)
        cat == {i \in 1..Len(cats) : cats[i].name = category_name}
        c == CHOOSE i \in cat : TRUE
        qs == cats[c].questions
        hit == {i \in 1..Len(qs) : qs[i].key = question_key}
        i == CHOOSE j \in hit : \A k \in hit : j <= k
    IN  IF cat = {} \/ hit = {} THEN [sess |-> cs, ret |-> Unset]
        ELSE IF category_name \notin DOMAIN CQ_get_progress(cs)
        THEN [sess |-> cs, ret |-> Raised]
        ELSE [sess |-> CQ_update_progress(cs, category_name,
                          [CQ_get_progress(cs)[category_name]
                              EXCEPT !.current_question = i - 1,
                                     !.completed = FALSE]),
              ret |-> Unset]

\* navigate_to_question
CQ_navigate_to_question(cs0, cats, category_name, question_key) ==
    LET cs == CQ_navigate_to_category(cs0, cats, category_name)
        cat == {i \in 1..Len(cats) : cats[i].name = category_name}
        c == CHOOSE i \in cat : TRUE
        qs == cats[c].questions
        hit == {i \in 1..Len(qs) : qs[i].key = question_key}
        i == CHOOSE j \in hit : \A k \in hit : j <= k
    IN  IF cat = {} \/ hit = {} THEN [sess |-> cs, ret |-> Unset]
        ELSE IF category_name \notin DOMAIN CQ_get_progress(cs)
        THEN [sess |-> cs, ret |-> Raised]
        ELSE [sess |-> CQ_update_progress(cs, category_name,
                          [CQ_get_progress(cs)[category_name]
                              EXCEPT !.current_question = i - 1]),
              ret |-> Unset]

(***************************************************************************)
(* The questionnaires under test: distinct keys throughout.                *)
(*   1: a conditional question after the question it depends on, and a     *)
(*      category whose only question depends on the other category;        *)
(*   2: a conditional question, with a base question of another key, ahead *)
(*      of a plain question and depending on the other category;           *)
(*   3: three categories of one plain question each.                       *)
(***************************************************************************)
Categories1 ==
    << [name |-> "A",
        questions |-> << Plain("t", "text"),
                         ConditionalQuestion("ca", Plain("ca", "number"),
                                             "t", PyList(<<PyStr("a")>>)) >>],
       [name |-> "B",
        questions |-> << ConditionalQuestion("cb", Plain("cb", "text"),
                                             "t", PyStr("")) >>] >>

Categories2 ==
    << [name |-> "A",
        questions |-> << Plain("t", "text") >>],
       [name |-> "B",
        questions |-> << ConditionalQuestion("cb", Plain("cb_base", "number"),
                                             "t", PyStr("a")),
                         Plain("n", "number") >>] >>

Categories3 ==
    << [name |-> "A", questions |-> << Plain("t", "text") >>],
       [name |-> "B", questions |-> << Plain("n", "number") >>],
       [name |-> "C", questions |-> << Plain("s", "text") >>] >>

(***************************************************************************)
(* The categorical engine as a state machine.                              *)
(***************************************************************************)
InitCat ==
    /\ engine = "cat"
    /\ categories \in {Categories1, Categories2, Categories3}
    /\ csess = NoCatSession
    /\ widget = NoWidget
    /\ view = CatNoView
    /\ rerun = FALSE
    /\ ret = Unset
    /\ questions = <<>>
    /\ sess = [step |-> NoStep, data |-> NoData]
    /\ hist = FreshHist
    /\ call = NoCall

CatApply(r) ==
    /\ csess' = r.sess
    /\ widget' = r.widget
    /\ view' = r.view
    /\ rerun' = r.rerun
    /\ ret' = r.ret
    /\ UNCHANGED <<engine, categories, seqOnly, call>>

CatExecute(w, ev) == CatApply(CQ_run(csess, categories, w, ev))

\* The question that is on the page.
Rendered ==
    LET qs == categories[view.cat + 1].questions
    IN  qs[CHOOSE i \in 1..Len(qs) : qs[i].key = view.key]

Click(b) ==
    /\ ~rerun
    /\ b \in view.buttons
    /\ CatExecute(widget, b)

\* The script runs without a click: the first load of the page, or the
\* execution that st.rerun() queued.
CatRun ==
    /\ engine = "cat"
    /\ rerun \/ view.page = "none"
    /\ CatExecute(widget, NoEvent)

\* The user changes the value in the on-screen control.
CatEdit ==
    /\ engine = "cat"
    /\ ~rerun /\ view.page = "question"
    /\ \E v \in Entries(Rendered.kind) :
          /\ v # widget.val
          /\ CatExecute([widget EXCEPT !.val = v, !.edited = TRUE], NoEvent)

\* "Vorige vraag"
CatPrevious ==
    /\ engine = "cat"
    /\ \E b \in view.buttons : b[1] = "prev_q" /\ Click(b)

\* "Volgende vraag" or "Voltooien categorie"
CatNext ==
    /\ engine = "cat"
    /\ \E b \in view.buttons :
          b[1] \in {"next_q", "complete_cat"} /\ Click(b)

\* "Sla categorie over"
CatSkip ==
    /\ engine = "cat"
    /\ \E b \in view.buttons : b[1] = "skip_cat" /\ Click(b)

\* "Terug naar overzicht"
CatBack ==
    /\ engine = "cat"
    /\ Click(BackKey)

\* "Ga naar <category>"
CatGoto ==
    /\ engine = "cat"
    /\ \E b \in view.buttons : b[1] = "goto_overview" /\ Click(b)

\* "Ga verder"
CatContinue ==
    /\ engine = "cat"
    /\ Click(ContinueKey)

\* "Start opnieuw"
CatRestart ==
    /\ engine = "cat"
    /\ Click(RestartKey)

\* "Toon resultaten"
CatShowResults ==
    /\ engine = "cat"
    /\ Click(ResultsKey)

\* The host calls a method of the questionnaire between two executions of
\* run(); the control on the screen survives when the next execution renders
\* the same question.
HostCall(cs, r) ==
    /\ ~rerun
    /\ csess' = cs
    /\ widget' \in {widget, NoWidget}
    /\ view' = CatNoView
    /\ rerun' = FALSE
    /\ ret' = r
    /\ UNCHANGED <<engine, categories, seqOnly, call>>

CatReset ==
    /\ engine = "cat"
    /\ HostCall(CQ_reset(csess), Unset)

CatNavigateToCategory ==
    /\ engine = "cat"
    /\ \E c \in 1..Len(categories) :
          HostCall(CQ_navigate_to_category(csess, categories,
                                           categories[c].name),
                   Unset)

HostCallReturning(r) == HostCall(r.sess, r.ret)

CatNavigateToQuestion ==
    /\ engine = "cat"
    /\ \E c \in 1..Len(categories) :
          \E q \in 1..Len(categories[c].questions) :
              HostCallReturning(
                  CQ_navigate_to_question(csess, categories,
                                          categories[c].name,
                                          categories[c].questions[q].key))

NextCat ==
    \/ CatRun \/ CatEdit
    \/ CatPrevious \/ CatNext \/ CatSkip \/ CatBack
    \/ CatGoto \/ CatContinue \/ CatRestart \/ CatShowResults
    \/ CatReset \/ CatNavigateToCategory \/ CatNavigateToQuestion

SpecCat == InitCat /\ [][NextCat]_vars

\* Either engine.
Init == InitSeq \/ InitCat
Next == NextSeq \/ NextCat
Spec == Init /\ [][Next]_vars

(***************************************************************************)
(* Claims about the sequential engine (checked under SpecSeq).             *)
(***************************************************************************)
N == Len(questions)
QuestionKeys == {questions[i].key : i \in 1..Len(questions)}
Step == Questionnaire_get_current_step(sess)
Stored == Questionnaire_get_stored_data(sess)

\* C1: starting from fresh session state, after exactly N Next/Complete
\* clicks (and no other click) is_complete() is true and get_data() returns
\* a map whose keys are exactly the N question keys; after fewer clicks the
\* questionnaire is not complete.
C1_CompleteAfterNClicks ==
    hist.nextOnly =>
        /\ hist.clicks <= N
        /\ hist.clicks < N => ~Questionnaire_is_complete(sess, questions)
        /\ hist.clicks = N =>
              /\ Questionnaire_is_complete(sess, questions)
              /\ Questionnaire_get_data(sess, questions).kind = "data"
              /\ DOMAIN Questionnaire_get_data(sess, questions).data = QuestionKeys

C1_Witness ==
    /\ N = MaxQ
    /\ hist.nextOnly /\ hist.clicks = N
    /\ Questionnaire_is_complete(sess, questions)
    /\ DOMAIN Stored = QuestionKeys

\* C2: run() and get_data() return None when step < N and the full stored
\* answer map when step >= N, in which case no question is rendered; run()
\* never returns a map while the questionnaire is in progress.
C2_RunReturnsDataOnlyWhenComplete ==
    /\ Questionnaire_get_data(sess, questions) =
          (IF Step >= N THEN RetData(Stored) ELSE RetNone)
    /\ ret.kind = "data" =>
          /\ Step >= N
          /\ ret.data = Stored
          /\ view.page = "done" /\ ~widget.on
    /\ ret.kind = "none" => Step < N /\ view.page = "question"
    /\ (~rerun /\ view.page # "none") =>
          ret.kind = (IF Step >= N THEN "data" ELSE "none")

C2_Witness ==
    /\ ret.kind = "data"
    /\ DOMAIN ret.data = QuestionKeys
    /\ N = MaxQ

\* C3: the stored step is always within 0..N, and a question is rendered
\* only at an index strictly below N.
C3_StepInRange ==
    /\ sess.step.has => (0 <= sess.step.v /\ sess.step.v <= N)
    /\ view.page = "question" => (0 <= view.idx /\ view.idx < N)

C3_Witness ==
    /\ sess.step.has /\ sess.step.v = N /\ N = MaxQ
    /\ ~hist.nextOnly

\* C4: a Next/Complete click at step s stores the on-screen value under
\* questions[s].key and sets the step to s+1 (complete when s+1 = N); a
\* Previous click at step s > 0 stores the on-screen value under
\* questions[s].key and sets the step to s-1; Previous is not offered at
\* step 0.
C4_Transitions ==
    /\ [][/\ SeqNext =>
               /\ Stored' = DictSet(Stored, questions[Step + 1].key, widget.val)
               /\ Step' = Step + 1
               /\ (Step + 1 = N) <=> Questionnaire_is_complete(sess', questions)
          /\ SeqPrevious =>
               /\ Step > 0
               /\ Stored' = DictSet(Stored, questions[Step + 1].key, widget.val)
               /\ Step' = Step - 1]_vars
    /\ [](view.page = "question" => (view.prev <=> view.idx > 0))

C4_Witness ==
    /\ rerun /\ view.page = "question" /\ view.idx = 1
    /\ Step = 0
    /\ "q2" \in DOMAIN Stored /\ Stored["q2"] = PyStr("a")

\* C6 as stated: after reset() is_complete() is false.
C6_ResetNotComplete ==
    [][SeqReset => ~Questionnaire_is_complete(sess', questions)]_vars

\* C6, amended: after reset() the step and answer-map slots are absent, and
\* for a questionnaire with at least one question is_complete() is false and
\* the next run() renders questions[0] with no stored value to seed it (so
\* with its default) and with an empty stored answer map.
C6_Reset ==
    [][/\ SeqReset =>
            /\ ~sess'.step.has /\ ~sess'.data.has
            /\ N >= 1 => ~Questionnaire_is_complete(sess', questions)
       /\ (SeqRun /\ ~sess.step.has /\ ~sess.data.has /\ N >= 1) =>
            /\ view'.page = "question" /\ view'.idx = 0
            /\ view'.seed = None
            /\ ~widget.on => widget'.val =
                  render(questions[1], get_default_value(questions[1]), NoWidget)
            /\ Stored' = EmptyDict]_vars

\* The state right after a reset made on the page of the second question.
C6_Witness ==
    /\ ~sess.step.has /\ ~sess.data.has
    /\ view.page = "none" /\ N = MaxQ
    /\ widget.on /\ widget.key = "input_q2" /\ widget.edited

(***************************************************************************)
(* Claims about the categorical engine (checked under SpecCat).            *)
(***************************************************************************)
CategoryIndices == 1..Len(categories)
Global == CQ_get_all_data(csess)
Local(c) == ProgressOf(csess, categories[c]).data
AllCompleted ==
    \A c \in CategoryIndices : ProgressOf(csess, categories[c]).completed

\* The keys that a page lists as visible.
VisibleKeys(vw) == {vw.visible[i] : i \in 1..Len(vw.visible)}

\* The page shows a category: one of its questions, or that it is finished.
ShowsCategory(vw, c) ==
    vw.page \in {"question", "finished"} /\ vw.cat = c - 1

\* C7: in every reachable state is_complete() is true iff every category's
\* completed flag is true, and get_data() returns the global answer map when
\* that is so and None otherwise.
C7_CompleteIffAllCompleted ==
    /\ CQ_is_complete(csess) <=> AllCompleted
    /\ CQ_get_data(csess) = (IF AllCompleted THEN RetData(Global) ELSE RetNone)

\* C8: the global answer map equals the union of the per-category data maps:
\* the same keys with the same values.
C8_GlobalIsUnionOfLocals ==
    /\ DOMAIN Global = UNION {DOMAIN Local(c) : c \in CategoryIndices}
    /\ \A c \in CategoryIndices :
          \A k \in DOMAIN Local(c) : Global[k] = Local(c)[k]

\* Answers of both categories are stored, one of them entered by the user.
C8_Witness ==
    /\ categories = Categories1
    /\ DOMAIN Local(1) = {"t", "ca"} /\ DOMAIN Local(2) = {"cb"}
    /\ Global["t"] = PyStr("a") /\ Global["cb"] = PyStr("a")
    /\ view.page = "question" /\ ret = RetNone

\* The keys, in category order, of the questions that are not conditional or
\* whose guard holds on data.
RECURSIVE KeysShownOn(_, _)
KeysShownOn(qs, data) ==
    IF qs = <<>> THEN <<>>
    ELSE (IF Head(qs).cond => ConditionalQuestion_should_show(Head(qs), data)
          THEN <<Head(qs).key>> ELSE <<>>)
         \o KeysShownOn(Tail(qs), data)

\* The conditional questions of a category whose guard refers to an answer
\* of another category.
GuardedAcross(category) ==
    {category.questions[i] : i \in
        {j \in 1..Len(category.questions) :
            /\ category.questions[j].cond
            /\ \A k \in 1..Len(category.questions) :
                  category.questions[k].key
                      # category.questions[j].condition_key}}

\* C9: on every render of a category its visible list is, in category order,
\* every non-conditional question plus the conditional questions whose guard
\* holds on the global answer map overlaid with the category's own answers;
\* a guard on an answer of another category is decided by the global map.
C9_Visibility ==
    [][\A c \in CategoryIndices :
          ShowsCategory(view', c) =>
             /\ view'.visible =
                   KeysShownOn(categories[c].questions,
                               DictUpdate(Global, Local(c)))
             /\ \A q \in GuardedAcross(categories[c]) :
                   q.key \in VisibleKeys(view')
                       <=> ConditionalQuestion_should_show(q, Global)]_vars

\* Category B shows its conditional question because of the answer that was
\* given in category A.
C9_Witness ==
    /\ categories = Categories2
    /\ ShowsCategory(view, 2) /\ view.visible = <<"cb", "n">>
    /\ "t" \notin DOMAIN Local(2)
    /\ Global["t"] = PyStr("a")

\* The list-guarded conditional questions of a category.
ListGuarded(category) ==
    {category.questions[i] : i \in
        {j \in 1..Len(category.questions) :
            /\ category.questions[j].cond
            /\ category.questions[j].condition_value[1] = "list"}}

\* v is one of the values of the guard list l.
Member(v, l) == v \in {l[2][i] : i \in 1..Len(l[2])}

\* C10: a list-guarded conditional question is visible iff the referenced
\* answer is a member of the guard list; a step that changes the referenced
\* answer from a member to a non-member value leaves the question's stored
\* answer unchanged in the category's data and in the global map, and the
\* renders that follow do not list the question.
C10_ListGuard ==
    [][\A c \in CategoryIndices :
          \A q \in ListGuarded(categories[c]) :
             /\ ShowsCategory(view', c) =>
                   (q.key \in VisibleKeys(view')
                       <=> Member(DictGet(DictUpdate(Global, Local(c)),
                                          q.condition_key),
                                  q.condition_value))
             /\ ( /\ Member(DictGet(DictUpdate(Global, Local(c)),
                                    q.condition_key),
                            q.condition_value)
                  /\ q.condition_key \in DOMAIN Global'
                  /\ ~Member(DictGet(DictUpdate(Global', Local(c)'),
                                     q.condition_key),
                             q.condition_value) ) =>
                   /\ DictGet(Local(c)', q.key) = DictGet(Local(c), q.key)
                   /\ DictGet(Global', q.key) = DictGet(Global, q.key)]_vars

\* The answer of the list-guarded question is stored, the referenced answer
\* is no longer in the list, and the category is rendered without it.
C10_Witness ==
    /\ categories = Categories1
    /\ ShowsCategory(view, 1) /\ view.visible = <<"t">>
    /\ "ca" \in DOMAIN Local(1) /\ Local(1)["ca"] = PyFloat(1)
    /\ "ca" \in DOMAIN Global /\ Global["ca"] = PyFloat(1)
    /\ Global["t"] = PyStr("") /\ Local(1)["t"] = PyStr("")

(***************************************************************************)
(* Claims about both engines (checked under Spec).                         *)
(***************************************************************************)
\* The step ends with the user's edit of the control of q on the screen, and
\* v is what the control holds.
EditedInto(q, v) ==
    /\ widget'.on /\ widget'.edited
    /\ widget'.key = InputKey(q)
    /\ widget'.val = v

\* The step leaves the answer stored under the key of q in the map data
\* (data2 after the step) as it is, unless the user edited the control of q.
KeptUnlessEdited(q, data, data2) ==
    q.key \in DOMAIN data =>
        /\ q.key \in DOMAIN data2
        /\ data2[q.key] # data[q.key] => EditedInto(q, data2[q.key])

\* The step renders q seeded with the answer stored in data, and a control
\* that the user has not edited holds that answer.
SeededWith(q, data) ==
    /\ view'.seed = DictGet(data, q.key)
    /\ (q.key \in DOMAIN data /\ ~widget'.edited) =>
          widget'.val = data[q.key]

\* C5: a persisted answer changes only when the user edits the control of its
\* question (or the questionnaire is reset): navigating away and back, and
\* re-rendering, leave it identical; a question that has a persisted answer
\* is rendered seeded with that answer.
C5_RoundTrip ==
    [][/\ engine = "seq" =>
            /\ \A i \in 1..N :
                  sess'.data.has =>
                      KeptUnlessEdited(questions[i], Stored, Stored')
            /\ view'.page = "question" =>
                  SeededWith(questions[view'.idx + 1], Stored)
       /\ engine = "cat" =>
            \A c \in CategoryIndices :
               \A i \in 1..Len(categories[c].questions) :
                  /\ csess'.progress.has =>
                        KeptUnlessEdited(categories[c].questions[i],
                                         Local(c), Local(c)')
                  /\ csess'.data.has =>
                        KeptUnlessEdited(categories[c].questions[i],
                                         Global, Global')
                  /\ ( /\ view'.page = "question" /\ view'.cat = c - 1
                       /\ view'.key = categories[c].questions[i].key ) =>
                        SeededWith(categories[c].questions[i],
                                   DictUpdate(Global, Local(c)))]_vars

\* The first question of category A is back on the screen, not edited, with
\* the answer "a" that the user gave before leaving it.
C5_Witness ==
    /\ engine = "cat"
    /\ view.page = "question" /\ view.cat = 0 /\ view.key = "t"
    /\ view.seed = PyStr("a")
    /\ widget.on /\ ~widget.edited /\ widget.val = PyStr("a")
    /\ Local(1)["t"] = PyStr("a") /\ Global["t"] = PyStr("a")

\* The same in the sequential engine: the first question is back on the
\* screen with the stored answer 1.0.
C5_WitnessSequential ==
    /\ engine = "seq"
    /\ view.page = "question" /\ view.idx = 0
    /\ view.seed = PyFloat(1)
    /\ widget.on /\ ~widget.edited /\ widget.val = PyFloat(1)
    /\ Stored["q1"] = PyFloat(1)

(***************************************************************************)
(* ConditionalQuestion.should_show on its own: the guard of the question   *)
(* and the answer map are drawn from the sets below, and the one action is *)
(* the call.                                                               *)
(***************************************************************************)
\* The strings that an answer can be.
AnswerStrings == {"", " ", " \t", "\n", "a", " a ", "b"}

\* The values that an answer can be: None, strings, numbers and lists of
\* strings.
AnswerValues ==
    {None}
    \cup {PyStr(s) : s \in AnswerStrings}
    \cup {PyInt(n) : n \in 0..MaxNum}
    \cup {PyFloat(n) : n \in 0..MaxNum}
    \cup {PyList(<<>>), PyList(<<PyStr("a")>>), PyList(<<PyStr("b")>>),
          PyList(<<PyStr("b"), PyStr("a")>>)}

\* The values that a guard (condition_value) can be.
GuardValues ==
    {PyStr(""), PyStr(" "), PyStr("a"), PyInt(1), PyFloat(0),
     PyList(<<>>), PyList(<<PyStr("a")>>),
     PyList(<<PyStr("a"), PyStr("b")>>), PyList(<<PyInt(1)>>)}

\* The answer maps: the referenced key "K" and another key, each absent or
\* present.
AnswerMaps ==
    UNION {[keys -> AnswerValues] : keys \in SUBSET {"K"}}
    \cup {DictSet(d, "other", PyStr("a")) :
             d \in UNION {[keys -> AnswerValues] : keys \in SUBSET {"K"}}}

InitShow ==
    /\ engine = "should_show"
    /\ \E g \in GuardValues, d \in AnswerMaps :
          call = [fn |-> "should_show",
                  q |-> ConditionalQuestion("c", Plain("c", "text"), "K", g),
                  data |-> d, done |-> FALSE, result |-> FALSE]
    /\ widget = NoWidget /\ view = NoView /\ rerun = FALSE /\ ret = Unset
    /\ questions = <<>>
    /\ sess = [step |-> NoStep, data |-> NoData]
    /\ hist = FreshHist
    /\ categories = <<>>
    /\ csess = NoCatSession

\* question.should_show(data) is called and returns.
ShouldShow ==
    /\ engine = "should_show"
    /\ ~call.done
    /\ call' = [call EXCEPT
                   !.done = TRUE,
                   !.result = ConditionalQuestion_should_show(call.q, call.data)]
    /\ UNCHANGED <<engine, pageOnly, seqOnly, catOnly>>

NextShow == ShouldShow

SpecShow == InitShow /\ [][NextShow]_vars

(***************************************************************************)
(* Claims about should_show (checked under SpecShow).                      *)
(***************************************************************************)
\* The referenced answer of the call, None when the map has none.
Answer == IF "K" \in DOMAIN call.data THEN call.data["K"] ELSE None
Guard == call.q.condition_value

\* The strings that are empty or consist of whitespace only.
BlankStrings == {"", " ", " \t", "\n"}

\* C11 as stated: with the sentinel guard "" should_show is true iff the
\* referenced answer is a non-empty, non-whitespace string.
C11_SentinelIffNonBlankString ==
    (call.done /\ Guard = PyStr("")) =>
        (call.result <=> (Answer[1] = "str" /\ Answer[2] \notin BlankStrings))

\* C11, amended: with the sentinel guard "" should_show is false when the
\* referenced answer is absent, None, or an empty or whitespace-only string,
\* and true for every other answer: a string with a non-whitespace
\* character, and also any number or list, whose text is never blank.
C11_Sentinel ==
    (call.done /\ Guard = PyStr("")) =>
        (call.result <=>
            /\ Answer # None
            /\ Answer[1] = "str" => Answer[2] \notin BlankStrings)

\* The call returned true for the answer " a ", and the guard is the sentinel.
C11_Witness ==
    /\ call.fn = "should_show" /\ call.done
    /\ Guard = PyStr("")
    /\ Answer = PyStr(" a ") /\ call.result

\* The elements of a list value.
Elements(l) == {l[2][i] : i \in 1..Len(l[2])}

\* a == b of two values that are not lists: numbers by value, everything
\* else by type and content.
SameValue(a, b) ==
    \/ a = b
    \/ a[1] \in {"int", "float"} /\ b[1] \in {"int", "float"} /\ a[2] = b[2]

\* C12: with a string guard other than the sentinel, a list-valued answer
\* shows the question iff the guard is one of its elements; with a guard
\* that is neither a list nor the sentinel and an answer that is not a list,
\* the question shows iff the answer equals the guard, so an absent answer
\* hides it.
C12_StringGuard ==
    (call.done /\ Guard[1] # "list" /\ Guard # PyStr("")) =>
        /\ (Guard[1] = "str" /\ Answer[1] = "list") =>
              (call.result <=> Guard \in Elements(Answer))
        /\ Answer[1] # "list" =>
              (call.result <=> SameValue(Answer, Guard))
        /\ "K" \notin DOMAIN call.data => ~call.result

\* The call returned true for the answer ["b", "a"] under the guard "a".
C12_Witness ==
    /\ call.fn = "should_show" /\ call.done
    /\ Guard = PyStr("a")
    /\ Answer = PyList(<<PyStr("b"), PyStr("a")>>) /\ call.result

(***************************************************************************)
(* More claims about the categorical engine (checked under SpecCat).       *)
(***************************************************************************)
Progress(c) == ProgressOf(csess, categories[c])

\* C13: an execution that finds the visible list of the category it runs
\* empty renders no question and no navigation button of it, marks the
\* category completed in that same execution, and adds nothing to the
\* collected answers; a category that was never started contributes the
\* empty map.
C13_EmptyCategoryCompletes ==
    [][\A c \in CategoryIndices :
          (ShowsCategory(view', c) /\ view'.visible = <<>>) =>
             /\ view'.page = "finished" /\ ~widget'.on
             /\ view'.buttons = {BackKey}
             /\ Progress(c)'.completed
             /\ Local(c)' = Local(c)
             /\ Global' = Global
             /\ Progress(c) = CategoryProgress => Local(c)' = EmptyDict]_vars

\* Category B, whose only question is hidden, was completed by the execution
\* that st.rerun() queued after the user entered it, and holds no answer.
C13_Witness ==
    /\ categories = Categories1
    /\ ShowsCategory(view, 2) /\ view.visible = <<>>
    /\ Progress(2).completed /\ Local(2) = EmptyDict
    /\ ~Progress(1).completed
    /\ "cb" \notin DOMAIN Global

\* The question that the page of the categorical engine shows.
QuestionOn(vw) ==
    LET qs == categories[vw.cat + 1].questions
    IN  qs[CHOOSE i \in 1..Len(qs) : qs[i].key = vw.key]

\* C14: whenever an execution has rendered a question, whatever button was
\* clicked, the category's data and the global answer map hold the value of
\* the control under the key of that question; a question that comes onto the
\* screen with nothing stored for it has its default stored by being viewed.
C14_AutoPersist ==
    /\ [](view.page = "question" =>
             /\ widget.on /\ widget.val # None
             /\ view.key \in DOMAIN Local(view.cat + 1)
             /\ Local(view.cat + 1)[view.key] = widget.val
             /\ view.key \in DOMAIN Global
             /\ Global[view.key] = widget.val)
    /\ [][( /\ view'.page = "question"
            /\ view'.key \notin DOMAIN Global
            /\ ~OnScreen(QuestionOn(view'), widget)
            /\ ~widget'.edited ) =>
              Global'[view'.key] =
                  render(QuestionOn(view'),
                         get_default_value(QuestionOn(view')), NoWidget)]_vars

\* The number question of category B is on the screen for the first time,
\* untouched, and its default 0.0 is stored in both maps.
C14_Witness ==
    /\ categories = Categories2
    /\ view.page = "question" /\ view.cat = 1 /\ view.key = "n"
    /\ ~widget.edited /\ ~rerun
    /\ Local(2)["n"] = PyFloat(0) /\ Global["n"] = PyFloat(0)

\* The "Volgende vraag"/"Voltooien categorie" button of a page.
NextButtonOn(vw) ==
    CHOOSE b \in vw.buttons : b[1] \in {"next_q", "complete_cat"}

ClickReceived ==
    [][CatNext => NextButtonOn(view) \in view'.buttons]_vars

\* C16: a click on "Sla categorie over" sets the completed flag of the
\* current category in the execution it causes and leaves its cursor, its
\* answers, the records of the other categories and the global answer map as
\* they were; the answers of questions that were not visited stay absent.
C16_Skip ==
    [][\A c \in CategoryIndices :
          (CatSkip /\ view.cat = c - 1) =>
             /\ view'.cat = c - 1 /\ rerun'
             /\ Progress(c)'.completed
             /\ Progress(c)'.current_question = Progress(c).current_question
             /\ Local(c)' = Local(c)
             /\ Global' = Global
             /\ \A d \in CategoryIndices \ {c} : Progress(d)' = Progress(d)]_vars

\* Category A was skipped on its first question: it is completed with the
\* cursor still 0, the answer "a" is kept and the second question, which was
\* not visited, has no answer.
C16_Witness ==
    /\ categories = Categories1
    /\ rerun /\ view.page = "question" /\ view.cat = 0 /\ view.idx = 0
    /\ view.visible = <<"t", "ca">>
    /\ Progress(1).completed /\ Progress(1).current_question = 0
    /\ Global["t"] = PyStr("a") /\ Local(1)["t"] = PyStr("a")
    /\ "ca" \notin DOMAIN Global /\ "ca" \notin DOMAIN Local(1)

\* The step is an execution that answers a click on a navigation button of
\* the category.
NavigationAnswered ==
    \/ CatPrevious
    \/ CatSkip
    \/ CatNext /\ NextButtonOn(view) \in view'.buttons

\* The step is an execution in which the run of category c reports
\* completion: it returns the category's data.
ReportsCompletion(c) ==
    /\ ShowsCategory(view', c)
    /\ ~NavigationAnswered
    /\ view'.page = "finished" \/ Progress(c)'.completed

\* The categories that are not completed.
Incomplete == {d \in CategoryIndices : ~Progress(d).completed}

\* C17: when the run of the current category reports completion, the
\* execution sets the outer cursor to the lowest-index category whose
\* completed flag is false and calls st.rerun(); when there is none it clears
\* the step-mode flag instead, the questionnaire is complete, and the
\* execution that follows shows the overview.
C17_OuterCursorAdvance ==
    [][/\ \A c \in CategoryIndices :
             ReportsCompletion(c) =>
                /\ rerun'
                /\ Incomplete' # {} =>
                      /\ csess'.current_category.has
                      /\ csess'.current_category.v + 1 \in Incomplete'
                      /\ \A d \in Incomplete' :
                            csess'.current_category.v + 1 <= d
                      /\ csess'.in_stepmode = Slot(TRUE)
                /\ Incomplete' = {} =>
                      /\ csess'.in_stepmode = Slot(FALSE)
                      /\ CQ_is_complete(csess')
                      /\ csess'.current_category = csess.current_category
       /\ ( /\ CatRun /\ rerun /\ csess.in_stepmode = Slot(FALSE)
            /\ ~csess.enter_stepmode.has ) =>
             view'.page = "overview"]_vars

\* The last category has just reported completion: the step mode is left and
\* every category is completed.
C17_Witness ==
    /\ categories = Categories2
    /\ view.page = "finished" /\ view.cat = 1 /\ rerun
    /\ csess.in_stepmode = Slot(FALSE)
    /\ Incomplete = {}
    /\ DOMAIN Global = {"t", "cb", "n"}

\* Category B reported completion while categories A and C were open: the
\* cursor went back to A.
C17_WitnessBackwards ==
    /\ categories = Categories3
    /\ view.page = "finished" /\ view.cat = 1 /\ rerun
    /\ csess.in_stepmode = Slot(TRUE)
    /\ csess.current_category = Slot(0)
    /\ Incomplete = {1, 3}

\* The step is the execution that st.rerun() queued after a click on
\* "Ga naar <category c>" of the overview.
Enters(c) ==
    /\ CatRun /\ rerun /\ view.page = "overview"
    /\ csess.enter_stepmode = Slot(TRUE)
    /\ csess.current_category = Slot(c - 1)

\* C18: entering a category from the overview presents the question at the
\* category's stored cursor i of its visible list (when the list has a
\* question at i), and the user stays on that page; a category that was
\* never started is at cursor 0.
C18_Resume ==
    [][\A c \in CategoryIndices :
          (Enters(c) /\ Progress(c).current_question < Len(view'.visible)) =>
             /\ view'.page = "question" /\ view'.cat = c - 1
             /\ view'.idx = Progress(c).current_question
             /\ view'.key = view'.visible[view'.idx + 1]
             /\ ~rerun']_vars

\* The same for the categories that are not completed.
C18_ResumeIncomplete ==
    [][\A c \in CategoryIndices :
          ( /\ Enters(c) /\ ~Progress(c).completed
            /\ Progress(c).current_question < Len(view'.visible) ) =>
             /\ view'.page = "question" /\ view'.cat = c - 1
             /\ view'.idx = Progress(c).current_question
             /\ view'.key = view'.visible[view'.idx + 1]
             /\ ~rerun']_vars

\* The user is on a question page of category c.
PositionedIn(c) ==
    view.page = "question" /\ view.cat = c - 1 /\ ~rerun

\* C19: a completed category has the user on one of its question pages only
\* through an execution that follows "Ga naar <category>" (or while the user
\* stays on that page), and the navigation itself, by the button or by
\* navigate_to_category, leaves every progress record and the global answer
\* map as they were: it sets the outer cursor (and the enter flag).
C19_CompletedCategory ==
    [][/\ \A c \in CategoryIndices :
             (Progress(c)'.completed /\ PositionedIn(c)') =>
                (Enters(c) \/ (PositionedIn(c) /\ Progress(c).completed))
       /\ (CatGoto \/ CatNavigateToCategory) =>
             /\ csess'.progress = csess.progress
             /\ csess'.data = csess.data
             /\ csess'.in_stepmode = csess.in_stepmode
             /\ csess'.current_category.has]_vars

\* "Ga naar" was pressed for a completed category that has answers.
C19_Witness ==
    /\ engine = "cat" /\ rerun /\ view.page = "overview"
    /\ csess.enter_stepmode = Slot(TRUE)
    /\ csess.current_category.has
    /\ \E c \in CategoryIndices :
          /\ csess.current_category.v = c - 1
          /\ Progress(c).completed
          /\ DOMAIN Progress(c).data # {}
          /\ \E d \in CategoryIndices : ~Progress(d).completed

\* Every answer of the map data is in data2 with the same value.
Preserved(data, data2) ==
    \A k \in DOMAIN data : k \in DOMAIN data2 /\ data2[k] = data[k]

\* The step is a click on one of the navigation buttons.
NavigationStep ==
    \/ CatPrevious \/ CatNext \/ CatSkip
    \/ CatGoto \/ CatBack \/ CatContinue

\* The step stores the value that the user entered for the question on the
\* page under key k of data2.
NewlyEntered(k, data2) ==
    /\ CatEdit
    /\ view'.page = "question" /\ view'.key = k
    /\ k \in DOMAIN data2 /\ data2[k] = widget'.val

\* The step is reset(): the host's call, or "Start opnieuw".
ResetStep == CatReset \/ CatRestart

\* An answer of data that is missing or different in data2 was newly entered
\* or the step is reset().
ChangedOnlyByEntry(data, data2) ==
    \A k \in DOMAIN data :
        (k \notin DOMAIN data2 \/ data2[k] # data[k]) =>
            (ResetStep \/ NewlyEntered(k, data2))

\* C20: no navigation step (Previous, Next/Complete, Skip, go to category,
\* back to overview, continue) removes a key from, or changes a value of, the
\* global answer map or a category's local data; a stored answer changes only
\* by a newly entered value for the question on the page or by reset().
C20_NoAnswerLost ==
    [][engine = "cat" =>
          /\ NavigationStep =>
                /\ Preserved(Global, Global')
                /\ \A c \in CategoryIndices : Preserved(Local(c), Local(c)')
          /\ ChangedOnlyByEntry(Global, Global')
          /\ \A c \in CategoryIndices :
                ChangedOnlyByEntry(Local(c), Local(c)')]_vars

\* "Sla categorie over" was pressed on a category whose answer is stored, and
\* another category has stored answers too.
C20_Witness ==
    /\ engine = "cat" /\ rerun /\ view.page = "question"
    /\ Progress(view.cat + 1).completed
    /\ view.key \in DOMAIN Local(view.cat + 1)
    /\ Local(view.cat + 1)[view.key] \in {PyStr("a"), PyFloat(1)}
    /\ \E d \in CategoryIndices :
          d # view.cat + 1 /\ DOMAIN Local(d) # {} /\ ~Progress(d).completed

\* The next run() after a reset: the overview, with the outer cursor at 0,
\* every category not completed with cursor 0, and no stored answers.
StartsAfresh ==
    (CatRun /\ csess = NoCatSession) =>
        /\ view'.page = "overview"
        /\ csess'.current_category = Slot(0)
        /\ \A c \in CategoryIndices : Progress(c)' = CategoryProgress
        /\ csess'.progress.has /\ csess'.data = Slot(EmptyDict)

\* C21: reset() removes the outer cursor, the progress records, the global
\* answer map and both step-mode flags; right after it is_complete() is
\* false; the next run() shows the overview with everything at its start.
C21_Reset ==
    [][/\ ResetStep =>
             /\ csess' = NoCatSession
             /\ ~CQ_is_complete(csess')
       /\ StartsAfresh]_vars

\* The same without is_complete().
C21_ResetSlots ==
    [][/\ ResetStep => csess' = NoCatSession
       /\ StartsAfresh]_vars

(***************************************************************************)
(* The names of the session-state slots.  Two engine instances live in one *)
(* st.session_state; the first one is operated, the second one has run     *)
(* before and owns the slots it created.                                   *)
(***************************************************************************)
SessionPrefixes == {"financiele_apk", "financiele"}
EngineNames == {"data", "apk_data"}

\* An engine instance: its class, config.session_prefix and name.
Instances ==
    [kind : {"seq", "cat"}, session_prefix : SessionPrefixes, name : EngineNames]

\* Questionnaire.__init__ and CategoricalQuestionnaire.__init__: the keys.
step_key(e) == e.session_prefix \o "_" \o e.name \o "_step"
data_key(e) == e.session_prefix \o "_" \o e.name \o "_data"
current_category_key(e) == e.session_prefix \o "_" \o e.name \o "_current_category"
progress_key(e) == e.session_prefix \o "_" \o e.name \o "_progress"

\* The keys of the two step-mode flags of the categorical engine.
in_stepmode_key(e) == e.name \o "_in_stepmode"
enter_stepmode_key(e) == e.name \o "_enter_stepmode"

\* The slots that _initialize_session_state creates.
InitializedSlots(e) ==
    IF e.kind = "seq" THEN {step_key(e), data_key(e)}
    ELSE {current_category_key(e), progress_key(e), data_key(e)}

\* The slots that the engine assigns outside _initialize_session_state.
AssignedSlots(e) ==
    IF e.kind = "seq" THEN {step_key(e), data_key(e)}
    ELSE {current_category_key(e), progress_key(e), data_key(e),
          in_stepmode_key(e), enter_stepmode_key(e)}

\* reset: keys_to_remove.
keys_to_remove(e) ==
    IF e.kind = "seq" THEN {step_key(e), data_key(e)}
    ELSE {current_category_key(e), progress_key(e), data_key(e),
          in_stepmode_key(e), enter_stepmode_key(e)}

\* Every slot that the engine reads, writes or deletes.
SlotsOf(e) == InitializedSlots(e) \cup AssignedSlots(e) \cup keys_to_remove(e)

\* st.session_state: for each key "absent", or the instance that wrote it.
SlotStore(a, b) ==
    [k \in SlotsOf(a) \cup SlotsOf(b) |->
        IF k \in SlotsOf(b) THEN "second" ELSE "absent"]

InitSlots ==
    /\ engine = "slots"
    /\ \E a \in Instances, b \in Instances :
          call = [fn |-> "none", first |-> a, second |-> b,
                  store |-> SlotStore(a, b), touched |-> {}]
    /\ widget = NoWidget /\ view = NoView /\ rerun = FALSE /\ ret = Unset
    /\ questions = <<>>
    /\ sess = [step |-> NoStep, data |-> NoData]
    /\ hist = FreshHist
    /\ categories = <<>>
    /\ csess = NoCatSession

SlotsApply(fn, store, touched) ==
    /\ call' = [call EXCEPT !.fn = fn, !.store = store, !.touched = touched]
    /\ UNCHANGED <<engine, pageOnly, seqOnly, catOnly>>

\* _initialize_session_state of the first instance: a slot that is not in
\* the session state is created.
SlotsInitialize ==
    /\ engine = "slots"
    /\ SlotsApply("initialize",
                  [k \in DOMAIN call.store |->
                      IF k \in InitializedSlots(call.first)
                         /\ call.store[k] = "absent"
                      THEN "first" ELSE call.store[k]],
                  InitializedSlots(call.first))

\* An assignment of the first instance to one of its slots (the cursor, the
\* answers, a progress record, a step-mode flag); a dict slot is read first.
SlotsAssign ==
    /\ engine = "slots"
    /\ \E k \in AssignedSlots(call.first) :
          SlotsApply("assign", [call.store EXCEPT ![k] = "first"], {k})

\* run of the categorical engine, lines 763-771: the enter flag is read and,
\* when set, deleted and the mode flag is assigned; otherwise the mode flag
\* is read.
SlotsEnterStepMode ==
    /\ engine = "slots"
    /\ call.first.kind = "cat"
    /\ IF call.store[enter_stepmode_key(call.first)] # "absent"
       THEN SlotsApply("run",
                [call.store EXCEPT
                    ![enter_stepmode_key(call.first)] = "absent",
                    ![in_stepmode_key(call.first)] = "first"],
                {enter_stepmode_key(call.first), in_stepmode_key(call.first)})
       ELSE SlotsApply("run", call.store,
                {enter_stepmode_key(call.first), in_stepmode_key(call.first)})

\* reset of the first instance.
SlotsReset ==
    /\ engine = "slots"
    /\ SlotsApply("reset",
                  [k \in DOMAIN call.store |->
                      IF k \in keys_to_remove(call.first)
                      THEN "absent" ELSE call.store[k]],
                  keys_to_remove(call.first))

NextSlots ==
    \/ SlotsInitialize \/ SlotsAssign \/ SlotsEnterStepMode \/ SlotsReset

SpecSlots == InitSlots /\ [][NextSlots]_vars

\* The two instances differ in session prefix or in name.
Differ == 
    \/ call.first.session_prefix # call.second.session_prefix
    \/ call.first.name # call.second.name

\* C22: every slot of an engine is named <prefix>_<name>_<suffix>, so that
\* the operations of one instance never read or change a slot of an instance
\* that differs in session prefix or in name.
C22_SlotIsolation ==
    (engine = "slots" /\ Differ) =>
        \A k \in SlotsOf(call.second) :
            /\ k \notin call.touched
            /\ call.store[k] = "second"

\* The same for two instances of which one is a sequential engine.
C22_SlotIsolationSequential ==
    ( /\ engine = "slots" /\ Differ
      /\ "seq" \in {call.first.kind, call.second.kind}
      /\ call.first.session_prefix \o "_" \o call.first.name
            # call.second.session_prefix \o "_" \o call.second.name ) =>
        \A k \in SlotsOf(call.second) :
            /\ k \notin call.touched
            /\ call.store[k] = "second"

\* The session slots of the engine under test are absent.
SlotsAbsent ==
    IF engine = "seq" THEN ~sess.step.has /\ ~sess.data.has
    ELSE csess = NoCatSession

\* C23: with the session slots absent every public operation completes
\* without raising and the questionnaire counts as not started:
\* is_complete() is false, get_data() is None, and run() creates the slots.
C23_MissingState ==
    [][(engine \in {"seq", "cat"} /\ SlotsAbsent) =>
          /\ ret' # Raised
          /\ engine = "seq" =>
                /\ ~Questionnaire_is_complete(sess, questions)
                /\ Questionnaire_get_data(sess, questions) = RetNone
                /\ SeqRun => (sess'.step.has /\ sess'.data.has)
          /\ engine = "cat" =>
                /\ ~CQ_is_complete(csess)
                /\ CQ_get_data(csess) = RetNone
                /\ CatRun => /\ csess'.current_category.has
                             /\ csess'.progress.has /\ csess'.data.has]_vars

\* The part of it that holds for the categorical engine: run() and
\* navigate_to_category complete, and run() creates the slots.
C23_RunReinitialises ==
    [][(engine = "cat" /\ SlotsAbsent) =>
          /\ (CatRun \/ CatNavigateToCategory) => ret' # Raised
          /\ CatRun => /\ csess'.current_category.has
                       /\ csess'.progress.has /\ csess'.data.has]_vars

\* No call on absent slots of the categorical engine raises (as claimed;
\* navigate_to_question does, with KeyError).
C23_NavigateToQuestionReturns ==
    [][(engine = "cat" /\ SlotsAbsent) => ret' # Raised]_vars

(***************************************************************************)
(* Python floats.  A float is the pair <<m, e>> that stands for m * 2^e,   *)
(* with m odd, or <<0, 0>>.  The arithmetic is that of IEEE 754: the exact *)
(* result rounded to the nearest float, ties to the even mantissa, with a  *)
(* mantissa of MantissaBits bits (53 in CPython) and no bound on the       *)
(* exponent.                                                               *)
(***************************************************************************)
MantissaBits == 12

Abs(n) == IF n < 0 THEN 0 - n ELSE n
Sign(n) == IF n < 0 THEN 0 - 1 ELSE 1
Min(a, b) == IF a <= b THEN a ELSE b

\* The number of bits of the natural number n.
BitLength(n) == CHOOSE k \in 0..30 : n < 2^k /\ (k = 0 \/ n >= 2^(k - 1))

\* The number of zero bits at the end of the non-zero integer m.
TrailingZeros(m) == CHOOSE k \in 0..30 : m % 2^k = 0 /\ m % 2^(k + 1) # 0

\* m * 2^e with the zero bits at the end of m moved into the exponent.
Float(m, e) ==
    IF m = 0 THEN <<0, 0>>
    ELSE <<m \div 2^TrailingZeros(m), e + TrailingZeros(m)>>

\* The natural number a without its last k bits, rounded to nearest, ties
\* to even.
DropBits(a, k) ==
    IF (a % 2^k) * 2 > 2^k \/ ((a % 2^k) * 2 = 2^k /\ (a \div 2^k) % 2 = 1)
    THEN (a \div 2^k) + 1
    ELSE a \div 2^k

\* m * 2^e rounded to a float.
RoundTo(m, e) ==
    IF BitLength(Abs(m)) <= MantissaBits THEN Float(m, e)
    ELSE Float(Sign(m) * DropBits(Abs(m), BitLength(Abs(m)) - MantissaBits),
               e + BitLength(Abs(m)) - MantissaBits)

FromInt(n) == RoundTo(n, 0)

\* The exponent of the power of two just above |x|.
Magnitude(x) == x[2] + BitLength(Abs(x[1]))

\* x + y for x and y of comparable size: the exact sum, rounded.
AddAligned(x, y, e) ==
    RoundTo(x[1] * 2^(x[2] - e) + y[1] * 2^(y[2] - e), e)

\* x + y for |y| below a quarter of the last bit of x: y only decides the
\* direction of the rounding.
AddTiny(x, y) ==
    RoundTo(x[1] * 2^(MantissaBits + 4 - BitLength(Abs(x[1]))) + Sign(y[1]),
            x[2] - (MantissaBits + 4 - BitLength(Abs(x[1]))))

FAdd(x, y) ==
    IF x[1] = 0 THEN y
    ELSE IF y[1] = 0 THEN x
    ELSE IF Magnitude(x) - Magnitude(y) > MantissaBits + 2 THEN AddTiny(x, y)
    ELSE IF Magnitude(y) - Magnitude(x) > MantissaBits + 2 THEN AddTiny(y, x)
    ELSE AddAligned(x, y, Min(x[2], y[2]))

FNeg(x) == <<0 - x[1], x[2]>>
FSub(x, y) == FAdd(x, FNeg(y))
FMul(x, y) == RoundTo(x[1] * y[1], x[2] + y[2])

\* The mantissa of x shifted to MantissaBits bits.
FullMantissa(x) == Abs(x[1]) * 2^(MantissaBits - BitLength(Abs(x[1])))
FullExponent(x) == x[2] - (MantissaBits - BitLength(Abs(x[1])))

\* The quotient of the natural numbers a * 2^(MantissaBits + 2) and b, with
\* one more bit that says whether the division left a remainder.
QuotientSticky(a, b) ==
    2 * ((a * 2^(MantissaBits + 2)) \div b)
    + (IF (a * 2^(MantissaBits + 2)) % b = 0 THEN 0 ELSE 1)

\* x / y for y # 0.
FDiv(x, y) ==
    IF x[1] = 0 THEN <<0, 0>>
    ELSE RoundTo(Sign(x[1]) * Sign(y[1])
                    * QuotientSticky(FullMantissa(x), FullMantissa(y)),
                 FullExponent(x) - FullExponent(y) - (MantissaBits + 2) - 1)

\* x < y, x <= y, x > y: the difference of two floats is zero only when they
\* are equal.
FLt(x, y) == FSub(x, y)[1] < 0
FLe(x, y) == FSub(x, y)[1] <= 0
FGt(x, y) == FSub(x, y)[1] > 0
FGe(x, y) == FSub(x, y)[1] >= 0

\* min(x, y) and max(x, y) of Python: the first argument unless the second
\* is smaller (larger).
FMin(x, y) == IF FLt(y, x) THEN y ELSE x
FMax(x, y) == IF FGt(y, x) THEN y ELSE x

FZero == <<0, 0>>

\* The decimal literal n/d.
Decimal(n, d) == FDiv(FromInt(n), FromInt(d))

(***************************************************************************)
(* calculators/debt_payoff.py: calculate_snowball_payoff,                  *)
(* calculate_avalanche_payoff and the loop of calculate_payoff, one        *)
(* simulated month per step.                                               *)
(***************************************************************************)
Debt(name, balance, interest_rate, min_payment) ==
    [name |-> name, balance |-> balance, interest_rate |-> interest_rate,
     min_payment |-> min_payment]

DebtPayoffParameters(debts, extra_payment) ==
    [debts |-> debts, extra_payment |-> extra_payment]

\* sorted(params.debts, key=...): the sort is stable, also with reverse=True.
RECURSIVE SortedByKey(_, _, _)
SortedByKey(debts, keyOf, keys) ==
    IF keys = {} THEN <<>>
    ELSE SelectSeq(debts,
             LAMBDA d : keyOf[d] = (CHOOSE k \in keys : \A j \in keys : ~FLt(j, k)))
         \o SortedByKey(debts, keyOf,
                keys \ {CHOOSE k \in keys : \A j \in keys : ~FLt(j, k)})

Range(s) == {s[i] : i \in 1..Len(s)}

\* calculate_snowball_payoff: smallest balance first.
SnowballOrder(debts) ==
    SortedByKey(debts, [d \in Range(debts) |-> d.balance],
                {d.balance : d \in Range(debts)})

\* calculate_avalanche_payoff: highest interest rate first.
AvalancheOrder(debts) ==
    SortedByKey(debts, [d \in Range(debts) |-> FNeg(d.interest_rate)],
                {FNeg(d.interest_rate) : d \in Range(debts)})

\* monthly_balances = {debt.name: [debt.balance] for debt in ordered_debts}
RECURSIVE InitialBalances(_, _)
InitialBalances(ordered_debts, i) ==
    IF i = 0 THEN EmptyDict
    ELSE DictSet(InitialBalances(ordered_debts, i - 1),
                 ordered_debts[i].name, <<ordered_debts[i].balance>>)

\* balances[-1] of every history.
Latest(monthly_balances) ==
    [n \in DOMAIN monthly_balances |->
        monthly_balances[n][Len(monthly_balances[n])]]

\* any(balances[-1] > 0 for balances in monthly_balances.values())
AnyBalance(monthly_balances) ==
    \E n \in DOMAIN monthly_balances : Latest(monthly_balances)[n][1] > 0

\* interest = current_balance * (debt.interest_rate / 100 / 12)
DebtInterest(debt, current_balance) ==
    FMul(current_balance,
         FDiv(FDiv(debt.interest_rate, FromInt(100)), FromInt(12)))

\* payment = min(current_balance + interest, debt.min_payment)
DebtPayment(debt, current_balance) ==
    FMin(FAdd(current_balance, DebtInterest(debt, current_balance)),
         debt.min_payment)

\* new_balance = current_balance + interest - payment
DebtNewBalance(debt, current_balance) ==
    FSub(FAdd(current_balance, DebtInterest(debt, current_balance)),
         DebtPayment(debt, current_balance))

\* The body of the first loop for one debt.
MinimumPayment(debt, current_balance, st) ==
    IF current_balance[1] > 0
    THEN [new_balances |->
              DictSet(st.new_balances, debt.name,
                      DebtNewBalance(debt, current_balance)),
          total_paid |->
              FAdd(st.total_paid, DebtPayment(debt, current_balance)),
          available_payment |->
              FMax(FZero,
                   FSub(st.available_payment,
                        FMax(FZero, FSub(DebtPayment(debt, current_balance),
                                         debt.min_payment))))]
    ELSE [st EXCEPT !.new_balances = DictSet(@, debt.name, FZero)]

\* "First, make minimum payments on all debts".
RECURSIVE MinimumPayments(_, _, _, _)
MinimumPayments(ordered_debts, i, current, st) ==
    IF i = 0 THEN st
    ELSE MinimumPayment(ordered_debts[i], current[ordered_debts[i].name],
                        MinimumPayments(ordered_debts, i - 1, current, st))

\* Mutant: the extra payment goes to the last debt that has a balance.
ExtraTarget_last(ordered_debts, st) ==
    {i \in 1..Len(ordered_debts) :
        /\ st.new_balances[ordered_debts[i].name][1] > 0
        /\ st.available_payment[1] > 0
        /\ \A j \in (i + 1)..Len(ordered_debts) :
              ~(st.new_balances[ordered_debts[j].name][1] > 0)}

\* The debt that the second loop stops at: the first one with a balance, if
\* there is money available.
ExtraTarget(ordered_debts, st) ==
    {i \in 1..Len(ordered_debts) :
        /\ st.new_balances[ordered_debts[i].name][1] > 0
        /\ st.available_payment[1] > 0
        /\ \A j \in 1..(i - 1) :
              ~(st.new_balances[ordered_debts[j].name][1] > 0)}

\* payment = min(new_balances[debt.name], available_payment)
ExtraAmount(name, st) == FMin(st.new_balances[name], st.available_payment)

\* "Then, apply extra payment to the first debt with a balance".
PayExtra(name, st) ==
    [new_balances |-> [st.new_balances EXCEPT
                          ![name] = FSub(@, ExtraAmount(name, st))],
     total_paid |-> FAdd(st.total_paid, ExtraAmount(name, st)),
     available_payment |-> FSub(st.available_payment, ExtraAmount(name, st))]

ExtraPayment(ordered_debts, st) ==
    IF ExtraTarget(ordered_debts, st) = {} THEN st
    ELSE PayExtra(ordered_debts[CHOOSE i \in ExtraTarget(ordered_debts, st) : TRUE].name,
                  st)

\* One pass of the while loop up to the histories: both for loops.
MonthOf(params, ordered_debts, monthly_balances, total_paid) ==
    ExtraPayment(ordered_debts,
        MinimumPayments(ordered_debts, Len(ordered_debts),
                        Latest(monthly_balances),
                        [new_balances |-> EmptyDict, total_paid |-> total_paid,
                         available_payment |-> params.extra_payment]))

\* "Add new balances to history".
Appended(monthly_balances, new_balances) ==
    [n \in DOMAIN monthly_balances |->
        IF n \in DOMAIN new_balances
        THEN Append(monthly_balances[n], new_balances[n])
        ELSE monthly_balances[n]]

\* "if months > 360: break", tested after months += 1.
MonthCap == 360

\* The inputs.
Euro(n) == FromInt(n)
PayoffRates == {FromInt(0), FromInt(12)}
PayoffSingle ==
    {<<Debt("a", b[1], FromInt(0), b[2])>> :
        b \in {<<Euro(1200), Euro(100)>>, <<Euro(360), Euro(1)>>,
               <<Euro(300), Euro(100)>>, <<Decimal(4, 10), Decimal(1, 10)>>,
               <<Euro(100), Euro(0)>>}}
    \cup {<<Debt("a", Euro(1000), FromInt(100), Euro(20))>>}
PayoffDebts(name) ==
    {Debt(name, b, r, p) : b \in {Euro(0), Euro(100), Euro(300)},
                           r \in PayoffRates, p \in {Euro(50), Euro(100)}}
PayoffPairs ==
    {<<d1, d2>> : d1 \in PayoffDebts("a"),
                  d2 \in PayoffDebts("a") \cup PayoffDebts("b")}
PayoffInputs ==
    {DebtPayoffParameters(ds, Euro(0)) : ds \in PayoffSingle}
    \cup {DebtPayoffParameters(ds, x) :
             ds \in PayoffPairs, x \in {Euro(0), Euro(50), Euro(500)}}

Ordered(strategy, debts) ==
    IF strategy = "snowball" THEN SnowballOrder(debts)
    ELSE AvalancheOrder(debts)

InitPayoff ==
    /\ engine = "payoff"
    /\ \E p \in PayoffInputs, s \in {"snowball", "avalanche"} :
          call = [fn |-> s, params |-> p,
                  ordered_debts |-> Ordered(s, p.debts),
                  monthly_balances |->
                      InitialBalances(Ordered(s, p.debts), Len(p.debts)),
                  total_paid |-> FZero, months |-> 0, done |-> FALSE]
    /\ widget = NoWidget /\ view = NoView /\ rerun = FALSE /\ ret = Unset
    /\ questions = <<>>
    /\ sess = [step |-> NoStep, data |-> NoData]
    /\ hist = FreshHist
    /\ categories = <<>>
    /\ csess = NoCatSession

PayoffApply(m) ==
    /\ call' = [call EXCEPT
                   !.monthly_balances = Appended(@, m.new_balances),
                   !.total_paid = m.total_paid,
                   !.months = @ + 1,
                   !.done = call.months + 1 > MonthCap]
    /\ UNCHANGED <<engine, pageOnly, seqOnly, catOnly>>

\* One pass of the while loop: a simulated month.
PayoffMonth ==
    /\ engine = "payoff"
    /\ ~call.done
    /\ AnyBalance(call.monthly_balances)
    /\ PayoffApply(MonthOf(call.params, call.ordered_debts,
                           call.monthly_balances, call.total_paid))

\* The loop ends because no debt has a balance; the function returns.
PayoffReturn ==
    /\ engine = "payoff"
    /\ ~call.done
    /\ ~AnyBalance(call.monthly_balances)
    /\ call' = [call EXCEPT !.done = TRUE]
    /\ UNCHANGED <<engine, pageOnly, seqOnly, catOnly>>

NextPayoff == PayoffMonth \/ PayoffReturn

SpecPayoff == InitPayoff /\ [][NextPayoff]_vars

(***************************************************************************)
(* Claims about calculate_payoff (checked under SpecPayoff).               *)
(***************************************************************************)
\* The call is for one debt at 0% interest without extra payment.
SingleDebtNoInterest ==
    /\ Len(call.params.debts) = 1
    /\ call.params.debts[1].interest_rate = FZero
    /\ call.params.extra_payment = FZero

\* The balance of the one debt is exactly k times its minimum payment.
BalanceIsMultiple(k) ==
    Float(k * call.params.debts[1].min_payment[1],
          call.params.debts[1].min_payment[2]) = call.params.debts[1].balance

\* C24: one debt at 0% interest, extra payment 0, balance B a positive
\* multiple of the minimum payment P with B/P <= 360: calculate_payoff
\* returns B/P months and total_paid = B.
C24_PayoffWithoutInterest ==
    (engine = "payoff" /\ call.done /\ SingleDebtNoInterest) =>
        \A k \in 1..360 :
            (BalanceIsMultiple(k) /\ call.params.debts[1].min_payment[1] > 0) =>
                /\ call.months = k
                /\ call.total_paid = call.params.debts[1].balance

\* The same for amounts in whole euros.
C24_PayoffWholeEuros ==
    ( /\ engine = "payoff" /\ call.done /\ SingleDebtNoInterest
      /\ call.params.debts[1].balance[2] >= 0
      /\ call.params.debts[1].min_payment[2] >= 0 ) =>
        \A k \in 1..360 :
            (BalanceIsMultiple(k) /\ call.params.debts[1].min_payment[1] > 0) =>
                /\ call.months = k
                /\ call.total_paid = call.params.debts[1].balance

\* The example of the specification: 1200 at 100 a month.
C24_Example ==
    /\ engine = "payoff" /\ call.done /\ SingleDebtNoInterest
    /\ call.params.debts[1].balance = Euro(1200)
    /\ call.params.debts[1].min_payment = Euro(100)
    /\ call.months = 12 /\ call.total_paid = Euro(1200)

\* The number of simulated months in the history of debt n.
Simulated(n) == Len(call.monthly_balances[n]) - 1

\* C25: calculate_payoff stops as soon as every balance is zero, and
\* otherwise after 360 simulated months: the month count and the length of
\* each history minus one never exceed 360, and a call that returns with a
\* balance left has simulated exactly the 360 months.
C25_Cap ==
    engine = "payoff" =>
        /\ call.months <= 360
        /\ \A n \in DOMAIN call.monthly_balances : Simulated(n) <= 360
        /\ call.done =>
              (~AnyBalance(call.monthly_balances) \/ call.months = 360)

\* What the loop does: it returns as soon as every balance is zero, and
\* otherwise after 361 simulated months.
C25_CapAt361 ==
    engine = "payoff" =>
        /\ call.months <= 361
        /\ \A n \in DOMAIN call.monthly_balances : Simulated(n) = call.months
        /\ call.done =>
              (~AnyBalance(call.monthly_balances) \/ call.months = 361)
        /\ ~call.done => call.months <= 360

\* The debts in the order of the call, and the balance of the i-th of them
\* before the month.
DebtAt(i) == call.ordered_debts[i]
BalanceOf(i) == Latest(call.monthly_balances)[DebtAt(i).name]

\* The balance of the i-th debt after interest and minimum payment: a debt
\* with a positive balance b accrues b * (rate / 100 / 12) and pays the
\* smaller of b + interest and its minimum payment.
AfterMinimum(i) ==
    IF BalanceOf(i)[1] > 0
    THEN FSub(FAdd(BalanceOf(i),
                   FMul(BalanceOf(i),
                        FDiv(FDiv(DebtAt(i).interest_rate, FromInt(100)),
                             FromInt(12)))),
              FMin(FAdd(BalanceOf(i),
                        FMul(BalanceOf(i),
                             FDiv(FDiv(DebtAt(i).interest_rate, FromInt(100)),
                                  FromInt(12)))),
                   DebtAt(i).min_payment))
    ELSE FZero

\* The first debt of the order that still has a balance after the minimum
\* payments.
FirstWithBalance(i) ==
    /\ AfterMinimum(i)[1] > 0
    /\ \A j \in 1..(i - 1) : ~(AfterMinimum(j)[1] > 0)

\* The balance of the i-th debt at the end of the month: the extra payment,
\* up to the remaining balance, goes to the first debt with a balance.
AfterMonth(i) ==
    IF FirstWithBalance(i) /\ call.params.extra_payment[1] > 0
    THEN FSub(AfterMinimum(i),
              FMin(AfterMinimum(i), call.params.extra_payment))
    ELSE AfterMinimum(i)

\* The debts are in the order of the strategy, each debt once.
InStrategyOrder ==
    /\ Len(call.ordered_debts) = Len(call.params.debts)
    /\ \A d \in Range(call.params.debts) :
          Cardinality({i \in DOMAIN call.ordered_debts : DebtAt(i) = d})
             = Cardinality({i \in DOMAIN call.params.debts :
                               call.params.debts[i] = d})
    /\ \A i \in 1..(Len(call.ordered_debts) - 1) :
          IF call.fn = "snowball"
          THEN FLe(DebtAt(i).balance, DebtAt(i + 1).balance)
          ELSE FGe(DebtAt(i).interest_rate, DebtAt(i + 1).interest_rate)

\* C26: the debts are ordered once, ascending by initial balance (snowball)
\* or descending by interest rate (avalanche); in each simulated month every
\* debt with a positive balance accrues interest and pays the smaller of
\* balance + interest and its minimum payment, and then the extra payment
\* goes, up to the remaining balance, to the first debt of the order that
\* still has a balance, and to no other debt.
C26_MonthlyStep ==
    [][engine = "payoff" =>
          /\ InStrategyOrder
          /\ call'.ordered_debts = call.ordered_debts
          /\ call'.months = call.months + 1 =>
                \A i \in DOMAIN call.ordered_debts :
                    Latest(call'.monthly_balances)[DebtAt(i).name]
                       = AfterMonth(i)]_vars

\* The names of the debts of the call are distinct.
DistinctNames ==
    \A i, j \in DOMAIN call.ordered_debts :
        DebtAt(i).name = DebtAt(j).name => i = j

\* The same for debts with distinct names.
C26_MonthlyStepDistinctNames ==
    [][(engine = "payoff" /\ DistinctNames) =>
          /\ InStrategyOrder
          /\ call'.ordered_debts = call.ordered_debts
          /\ call'.months = call.months + 1 =>
                \A i \in DOMAIN call.ordered_debts :
                    Latest(call'.monthly_balances)[DebtAt(i).name]
                       = AfterMonth(i)]_vars

(***************************************************************************)
(* calculators/compound_interest.py: calculate_investment_growth, one pass *)
(* of its for loop per step, and calculate_years_to_goal.                  *)
(***************************************************************************)
InvestmentParameters(principal, interest_rate, monthly_contribution, time_years) ==
    [principal |-> principal, interest_rate |-> interest_rate,
     monthly_contribution |-> monthly_contribution, time_years |-> time_years]

\* monthly_rate = (params.interest_rate / 100) / 12
MonthlyRate(params) ==
    FDiv(FDiv(params.interest_rate, FromInt(100)), FromInt(12))

\* months = int(params.time_years * 12)
Months(params) == params.time_years * 12

\* Mutant: the contribution is added after the interest.
NextAmount_contribution_last(params, current_amount) ==
    FAdd(FMul(current_amount, FAdd(FromInt(1), MonthlyRate(params))),
         params.monthly_contribution)

\* (current_amount + params.monthly_contribution) * (1 + monthly_rate)
NextAmount(params, current_amount) ==
    FMul(FAdd(current_amount, params.monthly_contribution),
         FAdd(FromInt(1), MonthlyRate(params)))

\* The inputs: amounts in whole euros and in cents, a horizon in years.
GrowthInputs ==
    {InvestmentParameters(p, r, c, y) :
        p \in {Euro(0), Euro(1000), Decimal(1, 10)},
        r \in {FromInt(0), FromInt(7), FromInt(12)},
        c \in {Euro(0), Euro(100), Decimal(1, 10)},
        y \in {0, 1, 2}}

InitGrowth ==
    /\ engine = "growth"
    /\ \E p \in GrowthInputs :
          call = [fn |-> "growth", params |-> p, values |-> <<>>,
                  total_contributions |-> p.principal,
                  current_amount |-> p.principal, month |-> 0,
                  interest_earned |-> FZero, done |-> FALSE]
    /\ widget = NoWidget /\ view = NoView /\ rerun = FALSE /\ ret = Unset
    /\ questions = <<>>
    /\ sess = [step |-> NoStep, data |-> NoData]
    /\ hist = FreshHist
    /\ categories = <<>>
    /\ csess = NoCatSession

\* One pass of "for month in range(months + 1)".
GrowthMonth ==
    /\ engine = "growth"
    /\ ~call.done
    /\ call.month <= Months(call.params)
    /\ call' = [call EXCEPT
          !.values = Append(@, call.current_amount),
          !.current_amount =
              IF call.month < Months(call.params)
              THEN NextAmount(call.params, @) ELSE @,
          !.total_contributions =
              IF call.month < Months(call.params)
              THEN FAdd(@, call.params.monthly_contribution) ELSE @,
          !.month = @ + 1]
    /\ UNCHANGED <<engine, pageOnly, seqOnly, catOnly>>

\* After the loop: interest_earned = values[-1] - total_contributions, and
\* the function returns.
GrowthReturn ==
    /\ engine = "growth"
    /\ ~call.done
    /\ call.month > Months(call.params)
    /\ call' = [call EXCEPT
          !.interest_earned =
              FSub(call.values[Len(call.values)], call.total_contributions),
          !.done = TRUE]
    /\ UNCHANGED <<engine, pageOnly, seqOnly, catOnly>>

NextGrowth == GrowthMonth \/ GrowthReturn

SpecGrowth == InitGrowth /\ [][NextGrowth]_vars

(***************************************************************************)
(* Claims about calculate_investment_growth (checked under SpecGrowth).    *)
(***************************************************************************)
\* values[m], 0-based as in the code.
ValueAt(m) == call.values[m + 1]

\* The parts of the claim that do not involve total_contributions: M + 1
\* values, values[0] = principal, and the recurrence.
GrowthSequence ==
    /\ Len(call.values) = Months(call.params) + 1
    /\ ValueAt(0) = call.params.principal
    /\ \A m \in 0..(Months(call.params) - 1) :
          ValueAt(m + 1) =
             FMul(FAdd(ValueAt(m), call.params.monthly_contribution),
                  FAdd(FromInt(1),
                       FDiv(FDiv(call.params.interest_rate, FromInt(100)),
                            FromInt(12))))
    /\ call.interest_earned =
          FSub(ValueAt(Months(call.params)), call.total_contributions)

\* C27 as stated: M + 1 values that start at the principal and follow the
\* recurrence, total_contributions == principal + M * contribution, and
\* interest_earned == values[M] - total_contributions.
C27_Growth ==
    (engine = "growth" /\ call.done) =>
        /\ GrowthSequence
        /\ call.total_contributions =
              FAdd(call.params.principal,
                   FMul(FromInt(Months(call.params)),
                        call.params.monthly_contribution))

\* x with c added n times, each sum rounded.
RECURSIVE AddedTimes(_, _, _)
AddedTimes(x, c, n) == IF n = 0 THEN x ELSE FAdd(AddedTimes(x, c, n - 1), c)

\* The float x is a whole number.
Whole(x) == x[2] >= 0

\* C27, amended: M + 1 values that start at the principal and follow the
\* recurrence; total_contributions is the principal with the contribution
\* added M times, one rounded float addition per month, which is
\* principal + M * contribution when no addition rounds (as for amounts in
\* whole euros); interest_earned == values[M] - total_contributions.
C27_GrowthAccumulated ==
    (engine = "growth" /\ call.done) =>
        /\ GrowthSequence
        /\ call.total_contributions =
              AddedTimes(call.params.principal,
                         call.params.monthly_contribution,
                         Months(call.params))
        /\ ( /\ Whole(call.params.principal)
             /\ Whole(call.params.monthly_contribution) ) =>
                call.total_contributions =
                   FAdd(call.params.principal,
                        FMul(FromInt(Months(call.params)),
                             call.params.monthly_contribution))

\* The example of the specification, a year of 100 a month on 1000 at 7%,
\* has returned: 13 values and 2200 contributed.
C27_Witness ==
    /\ engine = "growth" /\ call.done
    /\ call.params = InvestmentParameters(Euro(1000), FromInt(7), Euro(100), 1)
    /\ Len(call.values) = 13
    /\ call.total_contributions = Euro(2200)

(***************************************************************************)
(* calculate_years_to_goal on its own: the monthly values and the goal are *)
(* drawn from the sets below, and the one action is the call.              *)
(***************************************************************************)
\* The result None, and a float result.
NoYears == [kind |-> "none", v |-> FZero]
Years(x) == [kind |-> "float", v |-> x]

\* The indices (0-based) of the values that reach the goal.
Reaching(values, goal_amount) ==
    {i \in 0..(Len(values) - 1) : FGe(values[i + 1], goal_amount)}

\* Mutant: the first value that reaches the goal counts, whatever the last
\* value is.
calculate_years_to_goal_any(values, goal_amount) ==
    IF Reaching(values, goal_amount) # {}
    THEN Years(FDiv(FromInt(CHOOSE i \in Reaching(values, goal_amount) :
                               \A j \in Reaching(values, goal_amount) : i <= j),
                    FromInt(12)))
    ELSE NoYears

\* calculate_years_to_goal
calculate_years_to_goal(values, goal_amount) ==
    IF FGe(values[Len(values)], goal_amount)
    THEN Years(FDiv(FromInt(CHOOSE i \in Reaching(values, goal_amount) :
                               \A j \in Reaching(values, goal_amount) : i <= j),
                    FromInt(12)))
    ELSE NoYears

GoalValues == {Euro(1000), Euro(1200), Euro(1600)}
GoalSequences == UNION {[1..n -> GoalValues] : n \in 1..3}
GoalAmounts == {Euro(0), Euro(1000), Euro(1500), Euro(1600), Euro(2000)}

InitGoal ==
    /\ engine = "years_to_goal"
    /\ \E vs \in GoalSequences, g \in GoalAmounts :
          call = [fn |-> "years_to_goal", values |-> vs, goal_amount |-> g,
                  done |-> FALSE, result |-> NoYears]
    /\ widget = NoWidget /\ view = NoView /\ rerun = FALSE /\ ret = Unset
    /\ questions = <<>>
    /\ sess = [step |-> NoStep, data |-> NoData]
    /\ hist = FreshHist
    /\ categories = <<>>
    /\ csess = NoCatSession

\* calculate_years_to_goal(values, goal_amount) is called and returns.
YearsToGoal ==
    /\ engine = "years_to_goal"
    /\ ~call.done
    /\ call' = [call EXCEPT
                   !.done = TRUE,
                   !.result = calculate_years_to_goal(call.values,
                                                      call.goal_amount)]
    /\ UNCHANGED <<engine, pageOnly, seqOnly, catOnly>>

NextGoal == YearsToGoal

SpecGoal == InitGoal /\ [][NextGoal]_vars

(***************************************************************************)
(* Claims about calculate_years_to_goal (checked under SpecGoal).          *)
(***************************************************************************)
\* The smallest index whose value reaches the goal of the call.
FirstReaching ==
    CHOOSE i \in Reaching(call.values, call.goal_amount) :
        \A j \in Reaching(call.values, call.goal_amount) : i <= j

FinalBelowGoal == FLt(call.values[Len(call.values)], call.goal_amount)

C28_WitnessRising ==
    /\ engine = "years_to_goal" /\ call.done
    /\ call.values = <<Euro(1000), Euro(1200), Euro(1600)>>
    /\ call.goal_amount = Euro(1500)
    /\ call.result = Years(Decimal(2, 12))

\* The values of the call never fall, as the balances that
\* calculate_investment_growth returns for amounts and rates that are not
\* negative.
NeverFalling ==
    \A i \in 1..(Len(call.values) - 1) : FLe(call.values[i], call.values[i + 1])

\* The statement of C28 for values that never fall.
C28_YearsToGoalNeverFalling ==
    (engine = "years_to_goal" /\ call.done /\ NeverFalling) =>
        /\ Reaching(call.values, call.goal_amount) # {} =>
              call.result = Years(FDiv(FromInt(FirstReaching), FromInt(12)))
        /\ (call.result = NoYears) <=> FinalBelowGoal


\* ---------------------------------------------------------------------
\* validate_financial_consistency and the two flows that call it before
\* the results: the quick mode of show_financiele_apk and
\* show_financial_overview.
\* ---------------------------------------------------------------------

FAbs(x) == <<Abs(x[1]), x[2]>>

\* tolerance = 50.0
tolerance == FromInt(50)

Consistent == [is_consistent |-> TRUE, warning_message |-> "", called |-> TRUE]
Inconsistent(message) ==
    [is_consistent |-> FALSE, warning_message |-> message, called |-> TRUE]

\* The two warnings differ in their wording only; both are non-empty.
LeftoverAbove == "Je zegt meer over te houden"
LeftoverBelow == "Mogelijk heb je uitgaven vergeten?"

\* difference = abs(calculated_leftover - monthly_leftover)
Difference(calculated_leftover, monthly_leftover) ==
    FAbs(FSub(calculated_leftover, monthly_leftover))

ValidateLeftover(calculated_leftover, monthly_leftover) ==
    IF FLe(Difference(calculated_leftover, monthly_leftover), tolerance)
    THEN Consistent
    ELSE IF FGt(monthly_leftover, calculated_leftover)
         THEN Inconsistent(LeftoverAbove)
         ELSE Inconsistent(LeftoverBelow)

validate_financial_consistency(monthly_income, monthly_expenses, monthly_leftover) ==
    ValidateLeftover(FSub(monthly_income, monthly_expenses), monthly_leftover)

\* The amounts the user enters, in tenths of a euro; the number input hands
\* the program the nearest float.
Tenths == 10
Amount(n) == Decimal(n, Tenths)
Incomes == {0, 500, 510, 644, 1000, 25000}
Expenses == {0, 1, 500, 20000}
Leftovers == {0, 143, 490, 500, 5000}
Entered == [monthly_income : Incomes, monthly_expenses : Expenses, monthly_leftover : Leftovers]

\* questionnaire_data.get(key, 0.0)
DataGet(questionnaire_data, key) ==
    IF key \in DOMAIN questionnaire_data
    THEN Amount(questionnaire_data[key])
    ELSE FZero

\* st.session_state.get("questionnaire_data", {}) before anything is stored.
NoQuestionnaireData == [key \in {} |-> 0]

NotValidated == [is_consistent |-> FALSE, warning_message |-> "", called |-> FALSE]

Validated(questionnaire_data) ==
    validate_financial_consistency(DataGet(questionnaire_data, "monthly_income"),
                                   DataGet(questionnaire_data, "monthly_expenses"),
                                   DataGet(questionnaire_data, "monthly_leftover"))

\* What a run of the results puts on the page after validating.
Advice(validation) ==
    IF validation.is_consistent THEN {} ELSE {"warning", "info"}

Flows == {"quick", "comprehensive", "financial_overview"}

InitConsistency ==
    /\ engine = "consistency"
    /\ \E f \in Flows, a \in Entered :
          call = [fn |-> f, entered |-> a, apk_step |-> "questionnaire",
                  questionnaire_data |-> NoQuestionnaireData,
                  validation |-> NotValidated,
                  shown |-> {}]
    /\ widget = NoWidget /\ view = NoView /\ rerun = FALSE /\ ret = Unset
    /\ questions = <<>>
    /\ sess = [step |-> NoStep, data |-> NoData]
    /\ hist = FreshHist
    /\ categories = <<>>
    /\ csess = NoCatSession

\* show_financiele_apk, questionnaire step: the questionnaire returns its
\* data, the step becomes "results" and the script is run again.
ApkQuestionnaireCompleted ==
    /\ engine = "consistency"
    /\ call.fn \in {"quick", "comprehensive"}
    /\ call.apk_step = "questionnaire"
    /\ call' = [call EXCEPT !.apk_step = "results",
                            !.questionnaire_data = call.entered]
    /\ UNCHANGED <<engine, pageOnly, seqOnly, catOnly>>

\* show_financiele_apk, results step, quick mode.
ApkQuickResults ==
    /\ engine = "consistency"
    /\ call.fn = "quick"
    /\ call.apk_step = "results"
    /\ call.shown = {}
    /\ call' = [call EXCEPT
                   !.validation = Validated(call.questionnaire_data),
                   !.shown = Advice(Validated(call.questionnaire_data))
                                \cup {"success", "summary"}]
    /\ UNCHANGED <<engine, pageOnly, seqOnly, catOnly>>

\* show_financiele_apk, results step, comprehensive mode: no validation.
ApkComprehensiveResults ==
    /\ engine = "consistency"
    /\ call.fn = "comprehensive"
    /\ call.apk_step = "results"
    /\ call.shown = {}
    /\ call' = [call EXCEPT !.shown = {"success", "completeness", "summary"}]
    /\ UNCHANGED <<engine, pageOnly, seqOnly, catOnly>>

\* show_financial_overview: the questionnaire returns its data and the
\* same run validates and displays the results.
OverviewResults ==
    /\ engine = "consistency"
    /\ call.fn = "financial_overview"
    /\ call.shown = {}
    /\ call' = [call EXCEPT
                   !.apk_step = "results",
                   !.questionnaire_data = call.entered,
                   !.validation = Validated(call.entered),
                   !.shown = Advice(Validated(call.entered))
                                \cup {"success", "summary"}]
    /\ UNCHANGED <<engine, pageOnly, seqOnly, catOnly>>

NextConsistency ==
    \/ ApkQuestionnaireCompleted
    \/ ApkQuickResults
    \/ ApkComprehensiveResults
    \/ OverviewResults

SpecConsistency == InitConsistency /\ [][NextConsistency]_vars

\* The difference between what is left according to the entered amounts
\* and the entered leftover, in tenths of a euro.
EnteredDifference(a) ==
    Abs((a.monthly_income - a.monthly_expenses) - a.monthly_leftover)

HasValidated == engine = "consistency" /\ call.validation.called

\* C29: validate_financial_consistency(income, expenses, leftover) returns
\* (True, "") exactly when |(income - expenses) - leftover| <= 50 and
\* (False, a non-empty warning) otherwise; in the quick APK and the
\* financial overview an inconsistent result only adds a warning, and the
\* results are reached and displayed all the same.
C29_ConsistencyAdvisory ==
    HasValidated =>
        /\ IF EnteredDifference(call.questionnaire_data) <= 50 * Tenths
           THEN call.validation = Consistent
           ELSE /\ call.validation.is_consistent = FALSE
                /\ call.validation.warning_message # ""
        /\ call.apk_step = "results"
        /\ "summary" \in call.shown

\* C29, the part that holds: the answer is (True, "") or (False, a
\* non-empty warning), it is the former exactly when the difference the
\* program computes in floating point is at most 50, and whatever the
\* answer the results are displayed, with a warning and a note added
\* exactly when the answer is False.
C29_Advisory ==
    HasValidated =>
        /\ call.validation.is_consistent = (call.validation.warning_message = "")
        /\ call.validation.is_consistent =
              FLe(Difference(FSub(Amount(call.questionnaire_data.monthly_income),
                                  Amount(call.questionnaire_data.monthly_expenses)),
                             Amount(call.questionnaire_data.monthly_leftover)),
                  tolerance)
        /\ call.apk_step = "results"
        /\ {"success", "summary"} \subseteq call.shown
        /\ ("warning" \in call.shown) = ~call.validation.is_consistent

WholeEuros(a) ==
    /\ a.monthly_income % Tenths = 0
    /\ a.monthly_expenses % Tenths = 0
    /\ a.monthly_leftover % Tenths = 0

\* C29 for amounts in whole euros, where no subtraction rounds: the answer
\* is (True, "") exactly when the entered amounts differ by at most 50.
C29_ConsistencyWholeEuros ==
    (HasValidated /\ WholeEuros(call.questionnaire_data)) =>
        (call.validation.is_consistent =
            (EnteredDifference(call.questionnaire_data) <= 50 * Tenths))

\* An inconsistent answer whose results are on the page.
C29_WitnessInconsistent ==
    /\ HasValidated
    /\ ~call.validation.is_consistent
    /\ "summary" \in call.shown

\* Amounts exactly 50 apart, accepted.
C29_WitnessBoundary ==
    /\ HasValidated
    /\ EnteredDifference(call.questionnaire_data) = 50 * Tenths
    /\ call.validation.is_consistent


\* ---------------------------------------------------------------------
\* Re-persisting on navigation (sequential engine).
\* ---------------------------------------------------------------------

\* The question on the page.
OnPage == questions[view.idx + 1]

\* The user clicks "Volgende" (not "Voltooi") or "Vorige" in this step.
ClicksNext ==
    /\ engine = "seq" /\ ~rerun /\ view.page = "question" /\ rerun'
    /\ Questionnaire_get_current_step(sess') = Step + 1
    /\ Step + 1 < Len(questions)
ClicksPrevious ==
    /\ engine = "seq" /\ ~rerun /\ view.page = "question" /\ rerun'
    /\ Questionnaire_get_current_step(sess') = Step - 1
ClicksNavigation ==
    /\ engine = "seq" /\ ~rerun /\ view.page = "question" /\ rerun'

\* The control shows the value stored for the question on the page.
ShowsStored ==
    /\ OnPage.key \in DOMAIN Stored
    /\ PyEq(widget.val, Stored[OnPage.key])

\* The control shows what the engine put into it: the stored value, or the
\* default when nothing is stored.
ShowsSeeded == widget.val = render(OnPage, DictGet(Stored, OnPage.key), NoWidget)

\* The page as a click leaves it, and what the executions that follow make
\* of it: the queued execution, and a click on that page followed by the
\* execution it queues.
AfterClick == [sess |-> sess', widget |-> widget', view |-> view']
Executed(p, ev) == Questionnaire_run(p.sess, questions, p.widget, ev, p.view)
ThenClick(p, ev) == Executed(Executed(Executed(p, "none"), ev), "none")

\* The answers d with nothing changed, and at most the default added for
\* questions from..to (1-based) that had no answer.
DefaultsAdded(d, e, from, to) ==
    /\ DOMAIN d \subseteq DOMAIN e
    /\ \A k \in DOMAIN d : e[k] = d[k]
    /\ \A k \in (DOMAIN e) \ (DOMAIN d) :
          \E i \in from..to :
             /\ questions[i].key = k
             /\ e[k] = render(questions[i], None, NoWidget)

BackAt(p, step, from, to) ==
    /\ Questionnaire_get_current_step(p.sess) = step
    /\ p.view.page = "question" /\ p.view.idx = step
    /\ DefaultsAdded(Stored, Questionnaire_get_stored_data(p.sess), from, to)

\* C30: a navigation click on a question whose control shows the value
\* already stored for it leaves the stored answers as they are; and
\* "Volgende" followed by "Vorige", or "Vorige" followed by "Volgende",
\* with the controls left as the engine filled them, ends on the same step
\* with the same answers, apart from the defaults stored for the two
\* questions visited.
C30_IdempotentRePersist ==
    [][/\ (ClicksNavigation /\ ShowsStored) =>
              Questionnaire_get_stored_data(sess') = Stored
       /\ (ClicksNext /\ ShowsSeeded) =>
              BackAt(ThenClick(AfterClick, "prev"), Step, Step + 1, Step + 2)
       /\ (ClicksPrevious /\ ShowsSeeded) =>
              BackAt(ThenClick(AfterClick, "next"), Step, Step, Step + 1)]_vars

\* "Volgende" and then "Vorige" have been clicked, the engine is back on the
\* first question and holds the default of the second, which was never
\* edited.
C30_Witness ==
    /\ engine = "seq" /\ ~rerun /\ view.page = "question"
    /\ hist.clicks = 1 /\ ~hist.nextOnly
    /\ Step = 0 /\ ShowsStored
    /\ Len(questions) >= 2
    /\ questions[2].key \in DOMAIN Stored
    /\ Stored[questions[2].key] = render(questions[2], None, NoWidget)


\* ---------------------------------------------------------------------
\* ConditionalQuestion: what it takes from its base question.
\* ---------------------------------------------------------------------

\* A ConditionalQuestion is on the page.
ConditionalOnPage ==
    engine = "cat" /\ view.page = "question" /\ Rendered.cond

\* The base question of the ConditionalQuestion on the page.
BaseOnPage == Plain(Rendered.base_key, Rendered.kind)

\* Some question of the questionnaire has this key.
IsQuestionKey(k) ==
    \E c \in 1..Len(categories) :
       \E i \in 1..Len(categories[c].questions) :
          categories[c].questions[i].key = k

\* C31 (as claimed): the key of a ConditionalQuestion is the key of its base
\* question, so its answer is stored under the base question's key.
C31_Delegation ==
    ConditionalOnPage =>
        /\ Rendered.key = Rendered.base_key
        /\ Rendered.base_key \in DOMAIN Global
        /\ Global[Rendered.base_key] = widget.val

\* C31: render and get_default_value of a ConditionalQuestion are those of
\* its base question (the control is the base question's, keyed by the base
\* question's key, and a control that comes up with nothing stored shows
\* the base question's default); its key is the wrapper's own, and the
\* engine stores the answer under that key, in the category's map and in
\* the global map, and under no other.
C31_DelegationOwnKey ==
    ConditionalOnPage =>
        /\ widget.on
        /\ widget.key = "input_" \o Rendered.base_key
        /\ widget.val[1] = render(BaseOnPage, None, NoWidget)[1]
        /\ (view.seed = None /\ ~widget.edited) =>
              widget.val = render(BaseOnPage, None, NoWidget)
        /\ view.key = Rendered.key
        /\ view.key \in DOMAIN Global
        /\ Global[view.key] = widget.val
        /\ Local(view.cat + 1)[view.key] = widget.val
        /\ ~IsQuestionKey(Rendered.base_key) =>
              Rendered.base_key \notin DOMAIN Global

\* A ConditionalQuestion whose key is not its base question's is on the page
\* and its answer is stored.
C31_Witness ==
    /\ ConditionalOnPage
    /\ Rendered.key # Rendered.base_key
    /\ view.key \in DOMAIN Global
    /\ widget.edited


\* ---------------------------------------------------------------------
\* navigate_to_question.
\* ---------------------------------------------------------------------

\* The questions of category c that _run_category finds visible in the
\* session state cs.
VisibleIn(cs, c) ==
    CQ_get_visible_questions(cs, categories[c],
                             MergedProgress(cs, categories[c]).data)

IsVisibleIn(cs, c, q) ==
    \E i \in 1..Len(VisibleIn(cs, c)) :
       VisibleIn(cs, c)[i].key = categories[c].questions[q].key

\* Every question of category c ahead of its q-th is visible in cs.
NoneHiddenBefore(cs, c, q) == \A p \in 1..q : IsVisibleIn(cs, c, p)

\* This step is navigate_to_question(categories[c].name, key of the q-th
\* question of categories[c]), and the call returns.
NavigatesToQuestion(c, q) ==
    /\ engine = "cat" /\ ~rerun /\ view' = CatNoView /\ ret' = Unset
    /\ CQ_navigate_to_question(csess, categories, categories[c].name,
                               categories[c].questions[q].key).ret = Unset
    /\ csess' = CQ_navigate_to_question(csess, categories, categories[c].name,
                                        categories[c].questions[q].key).sess

\* The next render of category c presents its q-th question.
Presents(cs, w, c, q) ==
    /\ CQ_get_current_category_index(cs) = c - 1
    /\ CQ_run_category(cs, categories[c], c - 1, w, NoEvent).view.page = "question"
    /\ CQ_run_category(cs, categories[c], c - 1, w, NoEvent).view.key =
          categories[c].questions[q].key

\* C32: after navigate_to_question(category_name, question_key) the outer
\* cursor is the index of the named category and the next render of that
\* category presents the question with that key, in every answer state in
\* which the question is visible.
C32_NavigateToQuestion ==
    [][\A c \in 1..Len(categories) : \A q \in 1..Len(categories[c].questions) :
          (NavigatesToQuestion(c, q) /\ IsVisibleIn(csess', c, q)) =>
              Presents(csess', widget', c, q)]_vars

\* C32 where no question ahead of the named one in its category is hidden:
\* the index in the category's list is then the index in the visible list.
C32_NavigateToQuestionNoneHidden ==
    [][\A c \in 1..Len(categories) : \A q \in 1..Len(categories[c].questions) :
          (NavigatesToQuestion(c, q) /\ NoneHiddenBefore(csess', c, q)) =>
              Presents(csess', widget', c, q)]_vars


\* ---------------------------------------------------------------------
\* show_financiele_apk: onboarding, questionnaire (quick or comprehensive)
\* and results, around the two engines.
\* ---------------------------------------------------------------------

Absent == "absent"

\* The questionnaires of the flow: the quick one is sequential, the
\* comprehensive one categorical.
QuickQuestions == [i \in 1..2 |-> QuestionAt(i)]
ComprehensiveCategories == {Categories1, Categories3}

InitApk ==
    /\ engine = "apk"
    /\ questions = QuickQuestions
    /\ categories \in ComprehensiveCategories
    /\ sess = [step |-> NoStep, data |-> NoData]
    /\ csess = NoCatSession
    /\ widget = NoWidget /\ view = NoView /\ rerun = FALSE /\ ret = Unset
    /\ hist = FreshHist
    /\ call = [fn |-> "apk", apk_step |-> Absent, apk_started |-> FALSE,
               apk_mode |-> Absent, questionnaire_data |-> NoData,
               page |-> "none"]

\* Lines 2398-2401: apk_step and apk_started get their initial values.
ApkDefaults(c) ==
    IF c.apk_step = Absent
    THEN [c EXCEPT !.apk_step = "onboarding", !.apk_started = FALSE]
    ELSE c

\* A page without a questionnaire on it.
ApkPage(c, page, again) ==
    /\ call' = [c EXCEPT !.page = page]
    /\ rerun' = again
    /\ widget' = NoWidget /\ view' = NoView /\ ret' = Unset
    /\ UNCHANGED <<engine, questions, categories, sess, csess, hist>>

\* The script runs without a click and shows the onboarding.
ApkOnboarding ==
    /\ engine = "apk"
    /\ rerun \/ call.page = "none"
    /\ ApkDefaults(call).apk_step = "onboarding"
    /\ ApkPage(ApkDefaults(call), "onboarding", FALSE)

\* "Start APK" on the onboarding: show_onboarding() returns True.
ApkStart ==
    /\ engine = "apk"
    /\ ~rerun /\ call.page = "onboarding"
    /\ ApkPage([call EXCEPT !.apk_step = "questionnaire", !.apk_started = TRUE],
               "onboarding", TRUE)

\* The questionnaire step before a mode is chosen: apk_mode becomes None and
\* the two mode buttons are shown.
ApkModes ==
    /\ engine = "apk"
    /\ rerun
    /\ call.apk_step = "questionnaire"
    /\ call.apk_mode \in {Absent, "None"}
    /\ ApkPage([call EXCEPT !.apk_mode = "None"], "modes", FALSE)

\* "Snelle APK" or "Uitgebreide APK".
ApkChooseMode ==
    /\ engine = "apk"
    /\ ~rerun /\ call.page = "modes"
    /\ \E m \in {"quick", "comprehensive"} :
          ApkPage([call EXCEPT !.apk_mode = m], "modes", TRUE)

\* Lines 2470-2473 and 2483-2486: when run() returned data the step becomes
\* "results", the data is stored and the script is run again.
ApkAfterRun(c, r, page) ==
    /\ call' = IF r.ret.kind = "data"
               THEN [c EXCEPT !.apk_step = "results",
                              !.questionnaire_data = Slot(r.ret.data),
                              !.page = page]
               ELSE [c EXCEPT !.page = page]
    /\ rerun' = (r.rerun \/ r.ret.kind = "data")
    /\ widget' = r.widget /\ view' = r.view /\ ret' = r.ret

ApkQuickApply(r) ==
    /\ sess' = r.sess
    /\ ApkAfterRun(call, r, "quick")
    /\ UNCHANGED <<engine, questions, categories, csess, hist>>

ApkQuickExecute(w, ev, vw) == ApkQuickApply(Questionnaire_run(sess, questions, w, ev, vw))

ApkInQuick == call.apk_step = "questionnaire" /\ call.apk_mode = "quick"

\* The quick questionnaire runs without a click.
ApkQuickRun ==
    /\ engine = "apk"
    /\ rerun /\ ApkInQuick
    /\ ApkQuickExecute(widget, "none", view)

\* The user changes the value in the control of the quick questionnaire.
ApkQuickEdit ==
    /\ engine = "apk"
    /\ ~rerun /\ ApkInQuick /\ call.page = "quick" /\ view.page = "question"
    /\ \E v \in Entries(questions[view.idx + 1].kind) :
          /\ v # widget.val
          /\ ApkQuickExecute([widget EXCEPT !.val = v, !.edited = TRUE], "none", view)

\* "Vorige", "Volgende" or "Voltooi" in the quick questionnaire.
ApkQuickClick ==
    /\ engine = "apk"
    /\ ~rerun /\ ApkInQuick /\ call.page = "quick" /\ view.page = "question"
    /\ \E ev \in {"prev", "next"} :
          /\ ev = "prev" => view.prev
          /\ ApkQuickExecute(widget, ev, view)

ApkComprehensiveApply(r) ==
    /\ csess' = r.sess
    /\ ApkAfterRun(call, r, "comprehensive")
    /\ UNCHANGED <<engine, questions, categories, sess, hist>>

ApkComprehensiveExecute(w, ev) == ApkComprehensiveApply(CQ_run(csess, categories, w, ev))

ApkInComprehensive ==
    call.apk_step = "questionnaire" /\ call.apk_mode = "comprehensive"

\* The comprehensive questionnaire runs without a click.
ApkComprehensiveRun ==
    /\ engine = "apk"
    /\ rerun /\ ApkInComprehensive
    /\ ApkComprehensiveExecute(widget, NoEvent)

\* The user changes the value in the control of the comprehensive
\* questionnaire.
ApkComprehensiveEdit ==
    /\ engine = "apk"
    /\ ~rerun /\ ApkInComprehensive /\ call.page = "comprehensive"
    /\ view.page = "question"
    /\ \E v \in Entries(Rendered.kind) :
          /\ v # widget.val
          /\ ApkComprehensiveExecute([widget EXCEPT !.val = v, !.edited = TRUE], NoEvent)

\* Any button of the comprehensive questionnaire.
ApkComprehensiveClick ==
    /\ engine = "apk"
    /\ ~rerun /\ ApkInComprehensive /\ call.page = "comprehensive"
    /\ \E b \in view.buttons : ApkComprehensiveExecute(widget, b)

\* The results step.
ApkResults ==
    /\ engine = "apk"
    /\ rerun
    /\ call.apk_step = "results"
    /\ ApkPage(call, "results", FALSE)

\* "Nieuwe APK starten" on the results.
ApkNew ==
    /\ engine = "apk"
    /\ ~rerun /\ call.page = "results"
    /\ call' = [call EXCEPT !.apk_step = "onboarding", !.apk_started = FALSE,
                            !.apk_mode = Absent,
                            !.questionnaire_data = NoData]
    /\ sess' = Questionnaire_reset(sess)
    /\ csess' = CQ_reset(csess)
    /\ rerun' = TRUE
    /\ widget' = NoWidget /\ view' = NoView /\ ret' = Unset
    /\ UNCHANGED <<engine, questions, categories, hist>>

NextApk ==
    \/ ApkOnboarding \/ ApkStart \/ ApkModes \/ ApkChooseMode
    \/ ApkQuickRun \/ ApkQuickEdit \/ ApkQuickClick
    \/ ApkComprehensiveRun \/ ApkComprehensiveEdit \/ ApkComprehensiveClick
    \/ ApkResults \/ ApkNew

SpecApk == InitApk /\ [][NextApk]_vars


\* The values apk_step takes one after the other.
ApkMoves ==
    {<<Absent, "onboarding">>, <<"onboarding", "questionnaire">>,
     <<"questionnaire", "results">>, <<"results", "onboarding">>}

\* The run() of the questionnaire of the selected mode starts from scratch
\* in the session state that the step leaves.
QuickFromScratch(r) ==
    /\ r.view.page = "question" /\ r.view.idx = 0 /\ r.view.seed = None
    /\ r.ret = RetNone
    /\ Questionnaire_get_current_step(r.sess) = 0
    /\ Questionnaire_get_stored_data(r.sess) = EmptyDict

ComprehensiveFromScratch(r) ==
    /\ r.view.page = "overview"
    /\ r.ret = RetNone
    /\ CQ_get_all_data(r.sess) = EmptyDict
    /\ \A c \in 1..Len(categories) :
          ProgressOf(r.sess, categories[c]) = CategoryProgress

\* C33: apk_step moves only from onboarding to questionnaire (on "Start
\* APK"), from questionnaire to results and from results to onboarding;
\* results is entered only in an execution in which run() of the selected
\* questionnaire returned data, which is stored as questionnaire_data; and
\* "Nieuwe APK starten" removes apk_mode and questionnaire_data and resets
\* both questionnaires, so that the next run of either starts from scratch.
C33_FlowOrder ==
    [][/\ engine = "apk" =>
             (call'.apk_step = call.apk_step
              \/ <<call.apk_step, call'.apk_step>> \in ApkMoves)
       /\ (engine = "apk" /\ call'.apk_step = "questionnaire"
                          /\ call.apk_step # "questionnaire") =>
             (~rerun /\ call.page = "onboarding" /\ call'.apk_started)
       /\ (engine = "apk" /\ call'.apk_step = "results"
                          /\ call.apk_step # "results") =>
             /\ ret'.kind = "data"
             /\ call'.questionnaire_data = Slot(ret'.data)
             /\ call.apk_mode = "quick" =>
                   ret' = Questionnaire_get_data(sess', questions)
             /\ call.apk_mode = "comprehensive" => ret' = CQ_get_data(csess')
             /\ call.apk_mode \in {"quick", "comprehensive"}
       /\ (engine = "apk" /\ call.apk_step = "results"
                          /\ call'.apk_step # "results") =>
             /\ call'.apk_mode = Absent
             /\ call'.questionnaire_data = NoData
             /\ QuickFromScratch(Questionnaire_run(sess', questions, widget', "none", view'))
             /\ ComprehensiveFromScratch(CQ_run(csess', categories, widget', NoEvent))]_vars

\* "Nieuwe APK starten" has just been clicked on the results.
C33_Witness ==
    /\ engine = "apk"
    /\ call.apk_step = "onboarding" /\ call.page = "results" /\ rerun


\* ---------------------------------------------------------------------
\* What run() of the categorical engine returns.
\* ---------------------------------------------------------------------

EveryCategoryCompleted(cs) ==
    \A c \in 1..Len(categories) : ProgressOf(cs, categories[c]).completed

\* C34: an execution of run() returns an answer map only in a state in
\* which is_complete() is true, every category being completed: in the
\* overview only on a click on "Toon resultaten", in the step-by-step mode
\* on the summary of the completed questionnaire; every other execution
\* returns None or ends in a rerun.
C34_ReturnsOnlyWhenComplete ==
    [][(engine = "cat" /\ ret'.kind = "data") =>
          /\ CQ_is_complete(csess')
          /\ EveryCategoryCompleted(csess')
          /\ ret'.data = CQ_get_all_data(csess')
          /\ ~rerun'
          /\ IF csess'.in_stepmode.has /\ csess'.in_stepmode.v
             THEN view'.page = "summary"
             ELSE /\ view'.page = "overview"
                  /\ view.page = "overview"
                  /\ CQ_is_complete(csess)
                  /\ CatShowResults]_vars

\* "Toon resultaten" has returned the answers.
C34_Witness ==
    /\ engine = "cat" /\ ret.kind = "data" /\ view.page = "overview"
    /\ Global # EmptyDict

\* The summary of the step-by-step mode has returned the answers.
C34_WitnessStepMode ==
    /\ engine = "cat" /\ ret.kind = "data" /\ view.page = "summary"


\* ---------------------------------------------------------------------
\* The completed flag of a category.
\* ---------------------------------------------------------------------

\* C35: a category that is completed stays completed in every step that is
\* not a reset(), whatever is clicked, edited or becomes visible.
C35_CompletedMonotone ==
    [][\A c \in 1..Len(categories) :
          (engine = "cat" /\ ProgressOf(csess, categories[c]).completed
                          /\ csess' # CQ_reset(csess)) =>
              ProgressOf(csess', categories[c]).completed]_vars

\* A completed category in which a visible question has no answer yet: the
\* question became visible after the category was completed.
C35_Witness ==
    /\ engine = "cat" /\ csess.progress.has
    /\ \E c \in 1..Len(categories) :
          /\ ProgressOf(csess, categories[c]).completed
          /\ \E i \in 1..Len(VisibleIn(csess, c)) :
                /\ VisibleIn(csess, c)[i].cond
                /\ VisibleIn(csess, c)[i].key \notin DOMAIN Global


\* ---------------------------------------------------------------------
\* The reruns of the categorical engine.
\* ---------------------------------------------------------------------

\* The execution that st.rerun() queued changes the state of the page: in
\* a state with a queued execution CatRun is enabled and not a stuttering
\* step.
RunAdvances ==
    (engine = "cat" /\ rerun) =>
        LET r == CQ_run(csess, categories, widget, NoEvent)
        IN  \/ ~r.rerun
            \/ r.sess # csess

\* The categorical engine where a queued execution is eventually run:
\* Streamlit runs the script again as soon as st.rerun() is called.  This is
\* WF_vars(CatRun) written out, with rerun for ENABLED <<CatRun>>_vars: the
\* two agree in every state with a queued execution by RunAdvances, and the
\* first load of the page is left unforced.
SpecCatLive == SpecCat /\ ([]<>(~rerun) \/ []<><<CatRun>>_vars)

\* A page the engine rests on: a question of a category that is not
\* completed, the overview, or the summary that the step-by-step mode shows
\* once every category is completed.
ShowsOpenQuestion ==
    /\ view.page = "question"
    /\ ~ProgressOf(csess, categories[view.cat + 1]).completed
    /\ CQ_get_current_category_index(csess) = view.cat
ShowsOverview == view.page = "overview"
ShowsSummary == view.page = "summary" /\ EveryCategoryCompleted(csess)

\* C36 (as claimed): a chain of reruns does not repeat a state, and the
\* execution that ends it shows a question of an incomplete category or the
\* overview.
C36_RerunChain ==
    /\ []RunAdvances
    /\ [][(engine = "cat" /\ rerun /\ ~rerun') =>
             (ShowsOpenQuestion' \/ ShowsOverview')]_vars

\* C36: every chain of reruns ends: without user input the engine comes to
\* rest on a question of an incomplete category, on the overview, or on the
\* summary that the step-by-step mode shows once every category is
\* completed.
C36_RerunChainTerminates ==
    /\ []RunAdvances
    /\ (engine = "cat" /\ rerun) ~>
          (~rerun /\ (ShowsOpenQuestion \/ ShowsOverview \/ ShowsSummary))

\* The chain that follows the completion of the last category ends on the
\* summary of the step-by-step mode.
C36_Witness ==
    /\ engine = "cat" /\ ~rerun /\ ShowsSummary
    /\ csess.in_stepmode.has /\ csess.in_stepmode.v

\* A chain of two reruns has ended on a question of the next incomplete
\* category: the category before it is completed.
C36_WitnessChain ==
    /\ engine = "cat" /\ ~rerun /\ ShowsOpenQuestion
    /\ view.cat > 0
    /\ ProgressOf(csess, categories[view.cat]).completed



\* ---------------------------------------------------------------------
\* The cursors of the categories.
\* ---------------------------------------------------------------------

\* The execution found the cursor of its category at or beyond the questions
\* that are visible in this execution.
CursorBeyondVisible ==
    /\ view.page = "finished"
    /\ view.visible # <<>>
    /\ view.idx >= Len(view.visible)

\* C37: the cursor of every category is at least 0; a question is rendered
\* only at a cursor i with 0 <= i < len(visible questions) of the execution
\* that renders it, and it is the i-th visible question; an execution that
\* finds the cursor at or beyond the visible questions renders no question
\* and marks the category completed.
C37_CursorValid ==
    engine = "cat" =>
        /\ \A c \in 1..Len(categories) :
              ProgressOf(csess, categories[c]).current_question >= 0
        /\ view.page = "question" =>
              /\ 0 <= view.idx /\ view.idx < Len(view.visible)
              /\ view.visible[view.idx + 1] = view.key
        /\ view.page = "finished" =>
              /\ view.visible = <<>> \/ view.idx >= Len(view.visible)
              /\ view.key = ""
              /\ ProgressOf(csess, categories[view.cat + 1]).completed

\* navigate_to_question has put the cursor beyond the visible questions,
\* and the execution has marked the category completed.
C37_Witness ==
    /\ engine = "cat" /\ CursorBeyondVisible
    /\ ProgressOf(csess, categories[view.cat + 1]).completed
    /\ Len(view.visible) < Len(categories[view.cat + 1].questions)



\* ---------------------------------------------------------------------
\* What calculate_payoff conserves.
\* ---------------------------------------------------------------------

\* The history of debt n, and its balance at the end of month t.
History(n) == call.monthly_balances[n]
BalanceAt(n, t) == History(n)[t + 1]

\* The sum of the current balances.
RECURSIVE SumOfBalances(_)
SumOfBalances(names) ==
    IF names = {} THEN FZero
    ELSE FAdd(SumOfBalances(names \ {CHOOSE n \in names : TRUE}),
              Latest(call.monthly_balances)[CHOOSE n \in names : TRUE])

\* The sum of the balances that the debts had at the start.
RECURSIVE SumOfInitial(_)
SumOfInitial(i) ==
    IF i = 0 THEN FZero
    ELSE FAdd(SumOfInitial(i - 1), call.params.debts[i].balance)

\* The interest that the first i debts accrued in month t: a debt accrues
\* interest on the balance it had at the end of the month before, if that
\* balance was positive.
RECURSIVE InterestOfMonth(_, _)
InterestOfMonth(t, i) ==
    IF i = 0 THEN FZero
    ELSE IF BalanceAt(DebtAt(i).name, t - 1)[1] > 0
    THEN FAdd(InterestOfMonth(t, i - 1),
              DebtInterest(DebtAt(i), BalanceAt(DebtAt(i).name, t - 1)))
    ELSE InterestOfMonth(t, i - 1)

\* All interest accrued in the first t months.
RECURSIVE InterestAccrued(_)
InterestAccrued(t) ==
    IF t = 0 THEN FZero
    ELSE FAdd(InterestAccrued(t - 1),
              InterestOfMonth(t, Len(call.ordered_debts)))

\* No balance is negative, and a balance that has reached 0 stays 0.
BalancesSettle ==
    \A n \in DOMAIN call.monthly_balances :
        /\ Latest(call.monthly_balances)[n][1] >= 0
        /\ \A t \in 1..Simulated(n) :
              BalanceAt(n, t - 1)[1] = 0 => BalanceAt(n, t)[1] = 0

\* What was paid and what is still owed is what was owed at the start and
\* the interest accrued since.
Conserved ==
    FAdd(call.total_paid, SumOfBalances(DOMAIN call.monthly_balances))
       = FAdd(SumOfInitial(Len(call.params.debts)),
              InterestAccrued(call.months))

\* C38: at the end of every simulated month each debt's balance is >= 0, a
\* balance that has reached 0 stays 0 in all later months, and total_paid
\* plus the sum of the current balances equals the sum of the initial
\* balances plus all interest accrued so far.
C38_DebtConservation ==
    (engine = "payoff" /\ call.months >= 1) => (BalancesSettle /\ Conserved)

\* What holds for every call: the part of C38 about the single balances.
C38_BalancesSettle ==
    engine = "payoff" => BalancesSettle

\* The amounts of the call are whole euros and no debt bears interest: every
\* sum and difference of the loop is exact.
ExactAmounts ==
    /\ call.params.extra_payment[2] >= 0
    /\ \A i \in DOMAIN call.params.debts :
          /\ call.params.debts[i].balance[2] >= 0
          /\ call.params.debts[i].min_payment[2] >= 0
          /\ call.params.debts[i].interest_rate = FZero

\* The conservation for debts with distinct names and exact amounts.
C38_ConservationDistinctNames ==
    (engine = "payoff" /\ call.months >= 1 /\ DistinctNames /\ ExactAmounts) =>
        Conserved

\* A debt with a name of its own is paid off and more was paid than owed at
\* the start: interest was accrued and paid.
C38_WitnessInterest ==
    /\ engine = "payoff" /\ call.done /\ DistinctNames
    /\ ~AnyBalance(call.monthly_balances)
    /\ FGt(call.total_paid, SumOfInitial(Len(call.params.debts)))

\* Two debts share a name, and more has been paid than all debts and their
\* interest amount to.
C38_WitnessSharedName ==
    /\ engine = "payoff" /\ ~DistinctNames /\ ExactAmounts
    /\ FGt(call.total_paid, SumOfInitial(Len(call.params.debts)))



(***************************************************************************)
(* calculators/compound_interest.py: display_results, as called by         *)
(* show_compound_interest_calculator with the values that                  *)
(* calculate_investment_growth returned.                                   *)
(***************************************************************************)
\* The values that calculate_investment_growth returns for the first m
\* months.
RECURSIVE GrowthValues(_, _)
GrowthValues(params, m) ==
    IF m = 0 THEN <<params.principal>>
    ELSE LET values == GrowthValues(params, m - 1)
         IN  Append(values, NextAmount(params, values[m]))

\* "if years_to_goal:": None and 0.0 are false.
Truthy(years_to_goal) ==
    years_to_goal.kind = "float" /\ years_to_goal.v[1] # 0

\* display_results, lines 173-179: the goal achievement message.
GoalMessage(years_to_goal, goal_amount) ==
    IF Truthy(years_to_goal) THEN "success"
    ELSE IF goal_amount[1] > 0 THEN "warning"
    ELSE "none"

\* display_results
display_results(values, goal_amount) ==
    [years_to_goal |-> calculate_years_to_goal(values, goal_amount),
     message |-> GoalMessage(calculate_years_to_goal(values, goal_amount),
                             goal_amount)]

\* The goals: none, and amounts in steps of the input field.
DisplayGoals == {Euro(0), Euro(1000), Euro(2000), Euro(100000)}

InitDisplay ==
    /\ engine = "display"
    /\ \E p \in GrowthInputs, g \in DisplayGoals :
          call = [fn |-> "display_results", params |-> p, goal_amount |-> g,
                  values |-> <<>>, years_to_goal |-> NoYears,
                  message |-> "none", done |-> FALSE]
    /\ widget = NoWidget /\ view = NoView /\ rerun = FALSE /\ ret = Unset
    /\ questions = <<>>
    /\ sess = [step |-> NoStep, data |-> NoData]
    /\ hist = FreshHist
    /\ categories = <<>>
    /\ csess = NoCatSession

\* show_compound_interest_calculator after a click on 'Bereken': the values
\* are calculated and display_results shows them.
DisplayResults ==
    /\ engine = "display"
    /\ ~call.done
    /\ LET values == GrowthValues(call.params, Months(call.params))
       IN  call' = [call EXCEPT
                       !.values = values,
                       !.years_to_goal =
                           display_results(values, call.goal_amount).years_to_goal,
                       !.message =
                           display_results(values, call.goal_amount).message,
                       !.done = TRUE]
    /\ UNCHANGED <<engine, pageOnly, seqOnly, catOnly>>

NextDisplay == DisplayResults

SpecDisplay == InitDisplay /\ [][NextDisplay]_vars

(***************************************************************************)
(* Claims about display_results (checked under SpecDisplay).               *)
(***************************************************************************)
\* display_results has run with a goal.
DisplayedWithGoal ==
    engine = "display" /\ call.done /\ call.goal_amount[1] > 0

\* C39: in display_results with goal_amount > 0 the warning that the goal
\* is not reached within the period is shown only when
\* calculate_years_to_goal returns None, and the success message is shown
\* whenever the goal is reached at any month index, including month 0.
C39_GoalMessage ==
    DisplayedWithGoal =>
        /\ call.message = "warning" => call.years_to_goal = NoYears
        /\ Reaching(call.values, call.goal_amount) # {} =>
              call.message = "success"

\* What holds: the same for a goal above the starting amount.
C39_GoalMessageAfterStart ==
    (DisplayedWithGoal /\ FLt(call.values[1], call.goal_amount)) =>
        /\ call.message = "warning" <=> call.years_to_goal = NoYears
        /\ Reaching(call.values, call.goal_amount) # {} <=>
              call.message = "success"

\* The goal is reached at month 0, calculate_years_to_goal returned 0.0, and
\* the warning is shown.
C39_WitnessMonthZero ==
    /\ DisplayedWithGoal
    /\ FGe(call.values[1], call.goal_amount)
    /\ call.years_to_goal = Years(FZero)
    /\ call.message = "warning"

\* The goal is reached after some months, and the success message is shown.
C39_WitnessSuccess ==
    /\ DisplayedWithGoal
    /\ call.years_to_goal.kind = "float" /\ call.years_to_goal.v[1] > 0
    /\ call.message = "success"

\* The goal is not reached, and the warning is shown.
C39_WitnessWarning ==
    /\ DisplayedWithGoal
    /\ call.years_to_goal = NoYears
    /\ call.message = "warning"

====
